---- MODULE Spec2Model ----
(***************************************************************************)
(* Arena shooter (sangsjr/advUIproject): the registry version              *)
(* (src/js/main.js, src/js/core.js, src/unnamed/part_000 = gameplay.js)    *)
(* and the monolithic version (src/main.js).                               *)
(*                                                                         *)
(* Units.  Time is counted in ticks of 1/60 s and lengths in 1/6 pt, so    *)
(* that every speed of the source (a multiple of 10 pt/s) moves an entity  *)
(* by a whole number of length units per tick: v pt/s = v/10 units/tick.   *)
(* Pt(p) converts a length in pt, Vel(s) a speed in pt/s.  Durations are   *)
(* written in ticks, with the source's value in seconds beside them.       *)
(* Floating-point positions are modelled on this lattice; a direction that *)
(* is not axis-aligned is rounded toward zero to the lattice.              *)
(***************************************************************************)
EXTENDS Integers, Sequences, FiniteSets, TLC

\* ---------------------------------------------------------------- constants
\* src/js/main.js
ARENA_WIDTH == 1200
ARENA_HEIGHT == 800
ENEMY_SPAWN_INTERVAL == 120     \* 2.0 s
SPAWN_SAFETY_DISTANCE == 150
SPAWN_MARGIN == 50
MAX_FRAME_DT == 2               \* 1/30 s, the cap of Game.gameLoop
\* src/js/core.js
WEAPON_SWITCH_COOLDOWN == 12    \* 0.2 s
CREATOR_TOGGLE_COOLDOWN == 12   \* 0.2 s
\* src/unnamed/part_000 (gameplay.js)
PLAYER_SPEED == 220
PLAYER_RADIUS == 16
PLAYER_MAX_HP == 3
PLAYER_IFRAME_DURATION == 48    \* 0.8 s
PLAYER_FLASH_DURATION == 6      \* 0.1 s
ASSASSIN_SPEED == 150
ASSASSIN_RADIUS == 15
SHOOTER_SPEED == 120
SHOOTER_RADIUS == 20
SHOOTER_MOVE_DURATION == 120    \* 2.0 s
SHOOTER_FIRE_RATE == 120        \* 2.0 s
SHOOTER_CENTER_THRESHOLD == 5
SHOOTER_BULLET_SPEED == 400
SHOOTER_BULLET_RADIUS == 4
SHOOTER_BULLET_LIFETIME == 150  \* 2.5 s
TANK_SPEED == 120
TANK_RADIUS == 25
TANK_HP == 3
TANK_CONTACT_COOLDOWN == 42     \* 0.7 s
TANK_KNOCKBACK == 8
TANK_FLASH_DURATION == 6        \* 0.1 s
BULLET_SPEED == 600
BULLET_RADIUS == 3
PISTOL_FIRE_RATE == 60          \* 1.0 s
MACHINE_GUN_FIRE_RATE == 30     \* 0.5 s
MACHINE_GUN_AMMO == 50
PROJECTILE_LIFETIME == 180      \* 3.0 s
INFINITE_AMMO == -1
CREATOR_RATE_DIVISOR == 5

\* ------------------------------------------------------------------- bounds
MaxTicks == 3          \* frames explored from an initial scene
StartClock == 1000     \* Date.now() at the first frame (far above any cooldown)
SlowFrame == 70        \* a long real interval between two frames (> 1 s)
SpawnSteps == 2        \* Math.random of a spawn point: u / SpawnSteps, u < SpawnSteps
MaxKeys == 1           \* key and mouse events in a session
MaxShots == 3          \* projectiles a weapon session puts in the list
MaxClock == 72         \* clock time a weapon session spans
MaxDuration == 5       \* longest timer duration
MaxTimerDt == 3        \* longest dt fed to a timer in one update
MaxFed == 12           \* dt fed to a timer between two resets
MaxRun == 2            \* consecutive held updates counted (the last value: or more)
MaxWait == 8           \* clock time a game-loop session spans
LowAmmo == 2           \* rounds left in a machine gun that has been used

\* ------------------------------------------------------------------ helpers
Pt(p) == 6 * p
Vel(s) == s \div 10
Min(a, b) == IF a < b THEN a ELSE b
Max(a, b) == IF a > b THEN a ELSE b
TruncDiv(a, b) == IF a >= 0 THEN a \div b ELSE -((-a) \div b)

\* F applied to the value of v, which is computed once
With(v, F(_)) == CHOOSE r \in {F(x) : x \in {v}} : TRUE

RECURSIVE IsqrtIter(_, _)
IsqrtIter(n, x) ==
    With((x + n \div x) \div 2, LAMBDA y : IF y >= x THEN x ELSE IsqrtIter(n, y))
\* floor of the square root
Isqrt(n) == With(n, LAMBDA v : IF v <= 0 THEN 0 ELSE IsqrtIter(v, v))

\* Utils.clamp
Clamp(value, lo, hi) == Min(Max(value, lo), hi)

\* dx*dx + dy*dy of Utils.distance; comparisons with a distance are made on squares
Dist2(x1, y1, x2, y2) == (x2 - x1) * (x2 - x1) + (y2 - y1) * (y2 - y1)

\* Utils.distance, rounded down to the lattice
Distance(x1, y1, x2, y2) == Isqrt(Dist2(x1, y1, x2, y2))

\* Utils.normalize(x, y) scaled by len: the zero vector for the zero vector
NormalizeTimes(x, y, len) ==
    LET length == Isqrt(x * x + y * y)
    IN IF length = 0 THEN [x |-> 0, y |-> 0]
       ELSE [x |-> TruncDiv(x * len, length), y |-> TruncDiv(y * len, length)]

\* CollisionSystem.checkCircleCollision: distance < r1 + r2 + COLLISION_EPSILON.
\* On the lattice the epsilon (0.001 pt) only admits exact tangency.
CheckCircleCollision(obj1, obj2) ==
    LET minDistance == obj1.radius + obj2.radius
    IN Dist2(obj1.x, obj1.y, obj2.x, obj2.y) <= minDistance * minDistance

\* ------------------------------------------------------------------- Entity
\* a takeDamage that takes the hit points and leaves the alive flag alone
C21_StaysAlive(e, damage) == [e EXCEPT !.hp = @ - damage]

\* Entity.takeDamage
EntityTakeDamage(e, damage) ==
    LET hp == e.hp - damage
    IN [e EXCEPT !.hp = hp, !.alive = IF hp <= 0 THEN FALSE ELSE @]

\* Entity.update: apply velocity to position
EntityMove(e, deltaTime) ==
    [e EXCEPT !.x = @ + e.vx * deltaTime, !.y = @ + e.vy * deltaTime]

\* ------------------------------------------------------------------- Player
\* new Player(x, y); weapon holds the key of the equipped weapon ("" = null)
NewPlayer(x, y) ==
    [x |-> x, y |-> y, radius |-> Pt(PLAYER_RADIUS), vx |-> 0, vy |-> 0,
     hp |-> PLAYER_MAX_HP, maxHp |-> PLAYER_MAX_HP, alive |-> TRUE,
     speed |-> Vel(PLAYER_SPEED), iframeTimer |-> 0, flashTimer |-> 0,
     weapon |-> "", creatorMode |-> FALSE]

\* a Player.update whose timers run down twice as fast
C3_TimersRunFast(p, deltaTime, move) ==
    [p EXCEPT !.iframeTimer = IF @ > 0 THEN @ - 2 * deltaTime ELSE @,
              !.flashTimer = IF @ > 0 THEN @ - 2 * deltaTime ELSE @]

\* Player.update: movement with clamping, then the timers.  move is the input
\* manager's move vector in 1/10000.
PlayerUpdate(p, deltaTime, move) ==
    LET vx == TruncDiv(move.x * p.speed, 10000)
        vy == TruncDiv(move.y * p.speed, 10000)
        newX == Clamp(p.x + vx * deltaTime, p.radius, Pt(ARENA_WIDTH) - p.radius)
        newY == Clamp(p.y + vy * deltaTime, p.radius, Pt(ARENA_HEIGHT) - p.radius)
    IN [p EXCEPT !.vx = vx, !.vy = vy, !.x = newX, !.y = newY,
                 !.iframeTimer = IF @ > 0 THEN @ - deltaTime ELSE @,
                 !.flashTimer = IF @ > 0 THEN @ - deltaTime ELSE @]

\* Player.canTakeDamage
CanTakeDamage(p) == p.iframeTimer <= 0

\* a takeDamage that starts no invulnerability window
C8_NoIframes(p, damage) ==
    IF p.iframeTimer > 0 THEN [p |-> p, ok |-> FALSE]
    ELSE [p |-> EntityTakeDamage(p, damage), ok |-> TRUE]

\* a takeDamage after which the player can be hurt again at once
C35_NoWindow(p, damage) ==
    IF p.iframeTimer > 0 THEN [p |-> p, ok |-> FALSE]
    ELSE IF p.creatorMode THEN [p |-> p, ok |-> TRUE]
    ELSE [p |-> EntityTakeDamage(p, damage), ok |-> TRUE]

\* Player.takeDamage: [p |-> the player after the call, ok |-> the return value]
PlayerTakeDamage(p, damage) ==
    IF p.iframeTimer > 0 THEN [p |-> p, ok |-> FALSE]
    ELSE IF p.creatorMode
    THEN [p |-> [p EXCEPT !.iframeTimer = PLAYER_IFRAME_DURATION,
                          !.flashTimer = PLAYER_FLASH_DURATION],
          ok |-> TRUE]
    ELSE [p |-> [EntityTakeDamage(p, damage) EXCEPT
                          !.iframeTimer = PLAYER_IFRAME_DURATION,
                          !.flashTimer = PLAYER_FLASH_DURATION],
          ok |-> TRUE]

\* --------------------------------------------------------------- Projectile
\* new Projectile(...) / new ShooterBullet(...); hits counts the takeDamage
\* calls this projectile has caused (observation)
NewProjectile(x, y, vx, vy, radius, damage, owner, lifetime) ==
    [x |-> x, y |-> y, vx |-> vx, vy |-> vy, radius |-> radius, hp |-> 1,
     maxHp |-> 1, alive |-> TRUE, damage |-> damage, owner |-> owner,
     lifetime |-> lifetime, age |-> 0, hits |-> 0]

\* a Projectile.update that forgets the lifetime
C23_NeverExpires(pr, deltaTime) ==
    LET m == EntityMove(pr, deltaTime)
        gone == \/ m.x < -m.radius \/ m.x > Pt(ARENA_WIDTH) + m.radius
                \/ m.y < -m.radius \/ m.y > Pt(ARENA_HEIGHT) + m.radius
    IN [m EXCEPT !.age = pr.age + deltaTime, !.alive = IF gone THEN FALSE ELSE @]

\* Projectile.update
ProjectileUpdate(pr, deltaTime) ==
    LET m == EntityMove(pr, deltaTime)
        age == pr.age + deltaTime
        expired == \/ age >= pr.lifetime
                   \/ m.x < -m.radius \/ m.x > Pt(ARENA_WIDTH) + m.radius
                   \/ m.y < -m.radius \/ m.y > Pt(ARENA_HEIGHT) + m.radius
    IN [m EXCEPT !.age = age, !.alive = IF expired THEN FALSE ELSE @]

\* ------------------------------------------------------------------- Weapon
\* new Pistol() / new MachineGun()
NewPistol ==
    [kind |-> "pistol", fireRate |-> PISTOL_FIRE_RATE, ammo |-> INFINITE_AMMO,
     currentAmmo |-> INFINITE_AMMO, lastFireTime |-> 0]
NewMachineGun ==
    [kind |-> "machine_gun", fireRate |-> MACHINE_GUN_FIRE_RATE,
     ammo |-> MACHINE_GUN_AMMO, currentAmmo |-> MACHINE_GUN_AMMO, lastFireTime |-> 0]

\* a canFire without the rate gate
C4_NoRateGate(w, clock) == w.ammo = INFINITE_AMMO \/ w.currentAmmo > 0

\* Weapon.canFire (Pistol inherits it)
WeaponCanFire(w, clock) ==
    /\ clock - w.lastFireTime >= w.fireRate
    /\ (w.ammo = INFINITE_AMMO \/ w.currentAmmo > 0)

\* a MachineGun.canFire without the ammo gate
C5_NoAmmoGate(w, clock) == clock - w.lastFireTime >= w.fireRate

\* MachineGun.canFire
MachineGunCanFire(w, clock) ==
    LET canFireByTime == clock - w.lastFireTime >= w.fireRate
        hasAmmo == w.currentAmmo > 0
    IN canFireByTime /\ hasAmmo

CanFire(w, clock) ==
    IF w.kind = "machine_gun" THEN MachineGunCanFire(w, clock) ELSE WeaponCanFire(w, clock)

\* Pistol.createProjectile: <<>> is null
PistolCreateProjectile(fromX, fromY, targetX, targetY) ==
    LET dx == targetX - fromX
        dy == targetY - fromY
        v == NormalizeTimes(dx, dy, Vel(BULLET_SPEED))
    IN IF dx * dx + dy * dy = 0 THEN <<>>
       ELSE <<NewProjectile(fromX, fromY, v.x, v.y, Pt(BULLET_RADIUS), 1, "player",
                            PROJECTILE_LIFETIME)>>

\* MachineGun.createProjectile
MachineGunCreateProjectile(fromX, fromY, targetX, targetY) ==
    LET dx == targetX - fromX
        dy == targetY - fromY
        distance == Isqrt(dx * dx + dy * dy)
    IN IF dx * dx + dy * dy = 0 THEN <<>>
       ELSE <<NewProjectile(fromX, fromY, TruncDiv(dx * Vel(BULLET_SPEED), distance),
                            TruncDiv(dy * Vel(BULLET_SPEED), distance),
                            Pt(BULLET_RADIUS), 1, "player", PROJECTILE_LIFETIME)>>

CreateProjectile(w, fromX, fromY, targetX, targetY) ==
    IF w.kind = "machine_gun"
    THEN MachineGunCreateProjectile(fromX, fromY, targetX, targetY)
    ELSE PistolCreateProjectile(fromX, fromY, targetX, targetY)

\* a fire that records the shot before it knows a projectile was made
C6_CommitsEarly(w, projs, clock, fromX, fromY, targetX, targetY) ==
    IF ~CanFire(w, clock) THEN [w |-> w, projectiles |-> projs, ok |-> FALSE]
    ELSE LET made == CreateProjectile(w, fromX, fromY, targetX, targetY)
             shot == [w EXCEPT !.lastFireTime = clock,
                               !.currentAmmo = IF w.ammo > 0 THEN @ - 1 ELSE @]
         IN IF made # <<>>
            THEN [w |-> shot, projectiles |-> Append(projs, made[1]), ok |-> TRUE]
            ELSE [w |-> shot, projectiles |-> projs, ok |-> FALSE]

\* Weapon.fire: [w |-> the weapon, projectiles |-> the list, ok |-> the return value]
WeaponFire(w, projs, clock, fromX, fromY, targetX, targetY) ==
    IF ~CanFire(w, clock) THEN [w |-> w, projectiles |-> projs, ok |-> FALSE]
    ELSE LET made == CreateProjectile(w, fromX, fromY, targetX, targetY)
         IN IF made # <<>>
            THEN [w |-> [w EXCEPT !.lastFireTime = clock,
                                  !.currentAmmo = IF w.ammo > 0 THEN @ - 1 ELSE @],
                  projectiles |-> Append(projs, made[1]),
                  ok |-> TRUE]
            ELSE [w |-> w, projectiles |-> projs, ok |-> FALSE]

\* -------------------------------------------------------------------- Enemy
\* new Enemy(x, y, radius, hp) with the fields of every subclass; id is the
\* observation's name for the instance
NewEnemy(id, kind, x, y, radius, hp, speed) ==
    [id |-> id, kind |-> kind, x |-> x, y |-> y, radius |-> radius, vx |-> 0, vy |-> 0,
     hp |-> hp, maxHp |-> hp, alive |-> TRUE, damage |-> 1, speed |-> speed,
     moveTimer |-> 0, fireTimer |-> 0, isMoving |-> (kind = "shooter"),
     centerX |-> 0, centerY |-> 0,
     contactCooldown |-> 0, flashTimer |-> 0, isFlashing |-> FALSE]

NewAssassin(id, x, y) ==
    NewEnemy(id, "assassin", x, y, Pt(ASSASSIN_RADIUS), 1, Vel(ASSASSIN_SPEED))
NewShooter(id, x, y) ==
    NewEnemy(id, "shooter", x, y, Pt(SHOOTER_RADIUS), 1, Vel(SHOOTER_SPEED))
NewTank(id, x, y) ==
    NewEnemy(id, "tank", x, y, Pt(TANK_RADIUS), TANK_HP, Vel(TANK_SPEED))

\* ENEMY_REGISTRY[enemyType]
EnemyRegistry(enemyType, id, x, y) ==
    CASE enemyType = "assassin" -> NewAssassin(id, x, y)
      [] enemyType = "shooter" -> NewShooter(id, x, y)
      [] enemyType = "tank" -> NewTank(id, x, y)

\* Tank.takeDamage / Entity.takeDamage by class
EnemyTakeDamage(e, damage) ==
    IF e.kind = "tank"
    THEN [EntityTakeDamage(e, damage) EXCEPT !.isFlashing = TRUE,
                                             !.flashTimer = TANK_FLASH_DURATION]
    ELSE EntityTakeDamage(e, damage)

ClampToArena(e) ==
    [e EXCEPT !.x = Clamp(@, e.radius, Pt(ARENA_WIDTH) - e.radius),
              !.y = Clamp(@, e.radius, Pt(ARENA_HEIGHT) - e.radius)]

\* an Assassin.update that keeps chasing a player who is not alive
C14_ChasesTheDead(e, deltaTime, p) ==
    LET distance == Distance(e.x, e.y, p.x, p.y)
        aimed == IF distance > 0
                 THEN [e EXCEPT !.vx = TruncDiv((p.x - e.x) * e.speed, distance),
                                !.vy = TruncDiv((p.y - e.y) * e.speed, distance)]
                 ELSE e
    IN ClampToArena(EntityMove(aimed, deltaTime))

\* Assassin.update
AssassinUpdate(e, deltaTime, p) ==
    IF ~p.alive THEN e
    ELSE LET dx == p.x - e.x
             dy == p.y - e.y
             distance == Distance(e.x, e.y, p.x, p.y)
             aimed == IF distance > 0
                      THEN [e EXCEPT !.vx = TruncDiv(dx * e.speed, distance),
                                     !.vy = TruncDiv(dy * e.speed, distance)]
                      ELSE e
         IN ClampToArena(EntityMove(aimed, deltaTime))

\* Shooter.fireAtPlayer: the bullet leaves along the angle to the player turned by
\* spread (in 1/100 rad, small-angle; Math.random picks it); atan2(0, 0) = 0
ShooterBullet(e, p, spread) ==
    LET dx == p.x - e.x
        dy == p.y - e.y
        base == IF dx = 0 /\ dy = 0 THEN [x |-> Vel(SHOOTER_BULLET_SPEED), y |-> 0]
                ELSE NormalizeTimes(dx, dy, Vel(SHOOTER_BULLET_SPEED))
        bulletVx == base.x - TruncDiv(spread * base.y, 100)
        bulletVy == base.y + TruncDiv(spread * base.x, 100)
    IN NewProjectile(e.x, e.y, bulletVx, bulletVy, Pt(SHOOTER_BULLET_RADIUS), 1,
                     "shooter", SHOOTER_BULLET_LIFETIME)

\* a Shooter.update that leaves the approach phase with the velocity it had
C28_KeepsDrifting(e, deltaTime, p, projs, spread) ==
    IF ~p.alive THEN [e |-> e, projectiles |-> projs]
    ELSE LET c == IF e.centerX = 0 /\ e.centerY = 0
                  THEN [e EXCEPT !.centerX = Pt(ARENA_WIDTH) \div 2,
                                 !.centerY = Pt(ARENA_HEIGHT) \div 2]
                  ELSE e
             t == [c EXCEPT !.moveTimer = @ + deltaTime, !.fireTimer = @ + deltaTime]
             far == Dist2(t.x, t.y, t.centerX, t.centerY)
                       > Pt(SHOOTER_CENTER_THRESHOLD) * Pt(SHOOTER_CENTER_THRESHOLD)
             v == NormalizeTimes(t.centerX - t.x, t.centerY - t.y, t.speed)
             m == IF t.isMoving /\ t.moveTimer < SHOOTER_MOVE_DURATION
                  THEN (IF far THEN [t EXCEPT !.vx = v.x, !.vy = v.y]
                        ELSE [t EXCEPT !.vx = 0, !.vy = 0, !.isMoving = FALSE])
                  ELSE [t EXCEPT !.isMoving = FALSE]
             fires == m.fireTimer >= SHOOTER_FIRE_RATE
             f == IF fires THEN [m EXCEPT !.fireTimer = 0] ELSE m
         IN [e |-> ClampToArena(EntityMove(f, deltaTime)),
             projectiles |-> IF fires THEN Append(projs, ShooterBullet(m, p, spread))
                             ELSE projs]

\* a Shooter.update that fires without starting fireTimer again
C29_NoReset(e, deltaTime, p, projs, spread) ==
    IF ~p.alive THEN [e |-> e, projectiles |-> projs]
    ELSE LET c == IF e.centerX = 0 /\ e.centerY = 0
                  THEN [e EXCEPT !.centerX = Pt(ARENA_WIDTH) \div 2,
                                 !.centerY = Pt(ARENA_HEIGHT) \div 2]
                  ELSE e
             t == [c EXCEPT !.moveTimer = @ + deltaTime, !.fireTimer = @ + deltaTime]
             far == Dist2(t.x, t.y, t.centerX, t.centerY)
                       > Pt(SHOOTER_CENTER_THRESHOLD) * Pt(SHOOTER_CENTER_THRESHOLD)
             v == NormalizeTimes(t.centerX - t.x, t.centerY - t.y, t.speed)
             m == IF t.isMoving /\ t.moveTimer < SHOOTER_MOVE_DURATION
                  THEN (IF far THEN [t EXCEPT !.vx = v.x, !.vy = v.y]
                        ELSE [t EXCEPT !.vx = 0, !.vy = 0, !.isMoving = FALSE])
                  ELSE [t EXCEPT !.isMoving = FALSE, !.vx = 0, !.vy = 0]
             fires == m.fireTimer >= SHOOTER_FIRE_RATE
         IN [e |-> ClampToArena(EntityMove(m, deltaTime)),
             projectiles |-> IF fires THEN Append(projs, ShooterBullet(m, p, spread))
                             ELSE projs]

\* Shooter.update: [e |-> the shooter, projectiles |-> the list]
ShooterUpdate(e, deltaTime, p, projs, spread) ==
    IF ~p.alive THEN [e |-> e, projectiles |-> projs]
    ELSE LET c == IF e.centerX = 0 /\ e.centerY = 0
                  THEN [e EXCEPT !.centerX = Pt(ARENA_WIDTH) \div 2,
                                 !.centerY = Pt(ARENA_HEIGHT) \div 2]
                  ELSE e
             t == [c EXCEPT !.moveTimer = @ + deltaTime, !.fireTimer = @ + deltaTime]
             far == Dist2(t.x, t.y, t.centerX, t.centerY)
                       > Pt(SHOOTER_CENTER_THRESHOLD) * Pt(SHOOTER_CENTER_THRESHOLD)
             v == NormalizeTimes(t.centerX - t.x, t.centerY - t.y, t.speed)
             m == IF t.isMoving /\ t.moveTimer < SHOOTER_MOVE_DURATION
                  THEN (IF far THEN [t EXCEPT !.vx = v.x, !.vy = v.y]
                        ELSE [t EXCEPT !.vx = 0, !.vy = 0, !.isMoving = FALSE])
                  ELSE [t EXCEPT !.isMoving = FALSE, !.vx = 0, !.vy = 0]
             fires == m.fireTimer >= SHOOTER_FIRE_RATE
             f == IF fires THEN [m EXCEPT !.fireTimer = 0] ELSE m
         IN [e |-> ClampToArena(EntityMove(f, deltaTime)),
             projectiles |-> IF fires THEN Append(projs, ShooterBullet(m, p, spread))
                             ELSE projs]

\* Tank.dealContactDamage: [e |-> the tank, p |-> the player, ok |-> takeDamage's result]
DealContactDamage(e, p) ==
    LET r == PlayerTakeDamage(p, 1)
        q == r.p
        distance == Distance(e.x, e.y, q.x, q.y)
        push == NormalizeTimes(q.x - e.x, q.y - e.y, Pt(TANK_KNOCKBACK))
    IN [e |-> [e EXCEPT !.contactCooldown = TANK_CONTACT_COOLDOWN],
        p |-> IF distance > 0 THEN [q EXCEPT !.x = @ + push.x, !.y = @ + push.y] ELSE q,
        ok |-> r.ok]

\* Tank.update: [e |-> the tank, p |-> the player, ok |-> a takeDamage returned true]
TankUpdate(e, deltaTime, p) ==
    IF ~p.alive THEN [e |-> e, p |-> p, ok |-> FALSE]
    ELSE LET t == [e EXCEPT !.contactCooldown = @ - deltaTime,
                            !.flashTimer = @ - deltaTime,
                            !.isFlashing = IF e.flashTimer - deltaTime <= 0 THEN FALSE ELSE @]
             distance == Distance(t.x, t.y, p.x, p.y)
             v == NormalizeTimes(p.x - t.x, p.y - t.y, t.speed)
             aimed == IF distance > 0 THEN [t EXCEPT !.vx = v.x, !.vy = v.y]
                      ELSE [t EXCEPT !.vx = 0, !.vy = 0]
             m == ClampToArena(EntityMove(aimed, deltaTime))
             reach == m.radius + p.radius
         IN IF /\ m.contactCooldown <= 0
               /\ CanTakeDamage(p)
               /\ Dist2(m.x, m.y, p.x, p.y) < reach * reach
            THEN DealContactDamage(m, p)
            ELSE [e |-> m, p |-> p, ok |-> FALSE]

\* the record of a contact in which the enemy e caused Player.takeDamage to
\* return true: which enemy, through which call, the player's hit points and
\* distance from the enemy before (p) and after (q) the call
Contact(e, via, p, q) ==
    [id |-> e.id, kind |-> e.kind, via |-> via, hp0 |-> p.hp, hp1 |-> q.hp,
     creator |-> p.creatorMode,
     d0 |-> Distance(e.x, e.y, p.x, p.y), d1 |-> Distance(e.x, e.y, q.x, q.y)]

\* --------------------------------------------------------- GameStateMachine
\* a setState that never leaves the current state
C7_StateStuck(g, newState) == g

\* GameStateMachine.setState on the game record g
SetState(g, newState) ==
    IF g.currentState = newState THEN g
    ELSE [g EXCEPT !.currentState = newState,
                   !.emitted = Append(@, [from |-> g.currentState, to |-> newState])]

\* --------------------------------------------------------------------- Game
\* Game.handleCollisions, first loop: player vs enemies.
\* acc = [p |-> player, n |-> takeDamage calls that returned true,
\*        log |-> the contacts that dealt damage (observation)]
RECURSIVE PlayerVsEnemies(_, _, _)
PlayerVsEnemies(acc, es, i) ==
    IF i > Len(es) THEN acc
    ELSE With(IF CheckCircleCollision(acc.p, es[i]) /\ CanTakeDamage(acc.p)
              THEN With(PlayerTakeDamage(acc.p, es[i].damage),
                        LAMBDA r : [p |-> r.p, n |-> acc.n + (IF r.ok THEN 1 ELSE 0),
                                    log |-> Append(acc.log,
                                              Contact(es[i], "collisions", acc.p, r.p))])
              ELSE acc,
              LAMBDA a : PlayerVsEnemies(a, es, i + 1))

\* second loop, inner forEach: one player projectile against every enemy.
\* acc = [pr |-> projectile, es |-> enemies, kills |-> killCount, deaths |-> ids,
\*        late |-> what took part in a hit with its alive flag already false:
\*                 "projectile" (expired in its update), "enemy" (killed before)]
RECURSIVE ProjectileVsEnemies(_, _)
ProjectileVsEnemies(acc, i) ==
    IF i > Len(acc.es) THEN acc
    ELSE With(IF CheckCircleCollision(acc.pr, acc.es[i])
              THEN With(EnemyTakeDamage(acc.es[i], acc.pr.damage),
                        LAMBDA hurt :
                          [pr |-> [acc.pr EXCEPT !.alive = FALSE, !.hits = @ + 1],
                           late |-> acc.late
                                      \cup (IF ~acc.pr.alive /\ acc.pr.hits = 0
                                            THEN {"projectile"} ELSE {})
                                      \cup (IF ~acc.es[i].alive THEN {"enemy"} ELSE {}),
                           es |-> [acc.es EXCEPT ![i] = hurt],
                           kills |-> IF ~hurt.alive THEN acc.kills + 1 ELSE acc.kills,
                           deaths |-> IF acc.es[i].alive /\ ~hurt.alive
                                      THEN acc.deaths \cup {acc.es[i].id}
                                      ELSE acc.deaths])
              ELSE acc,
              LAMBDA a : ProjectileVsEnemies(a, i + 1))

\* second loop, outer forEach over the projectiles owned by the player.
\* acc = [prs |-> projectiles, es, kills, deaths, late]
RECURSIVE ProjectilesVsEnemies(_, _)
ProjectilesVsEnemies(acc, j) ==
    IF j > Len(acc.prs) THEN acc
    ELSE With(IF acc.prs[j].owner = "player"
              THEN With(ProjectileVsEnemies([pr |-> acc.prs[j], es |-> acc.es,
                                             kills |-> acc.kills, deaths |-> acc.deaths,
                                             late |-> acc.late], 1),
                        LAMBDA r : [prs |-> [acc.prs EXCEPT ![j] = r.pr], es |-> r.es,
                                    kills |-> r.kills, deaths |-> r.deaths,
                                    late |-> r.late])
              ELSE acc,
              LAMBDA a : ProjectilesVsEnemies(a, j + 1))

\* third loop: enemy projectiles vs player.  acc = [p, prs, n, late]
RECURSIVE ProjectilesVsPlayer(_, _)
ProjectilesVsPlayer(acc, j) ==
    IF j > Len(acc.prs) THEN acc
    ELSE With(IF /\ acc.prs[j].owner # "player"
                 /\ CheckCircleCollision(acc.prs[j], acc.p)
                 /\ CanTakeDamage(acc.p)
              THEN With(PlayerTakeDamage(acc.p, acc.prs[j].damage),
                        LAMBDA r :
                          [p |-> r.p,
                           late |-> IF ~acc.prs[j].alive /\ acc.prs[j].hits = 0
                                    THEN acc.late \cup {"projectile"} ELSE acc.late,
                           prs |-> [acc.prs EXCEPT ![j] = [@ EXCEPT !.alive = FALSE,
                                                                    !.hits = @ + 1]],
                           n |-> acc.n + (IF r.ok THEN 1 ELSE 0)])
              ELSE acc,
              LAMBDA a : ProjectilesVsPlayer(a, j + 1))

\* the most takeDamage calls one projectile of the list has caused
RECURSIVE MostHits(_, _)
MostHits(prs, j) ==
    IF j > Len(prs) THEN 0 ELSE Max(prs[j].hits, MostHits(prs, j + 1))

\* Game.handleCollisions
HandleCollisions(g) ==
    With(PlayerVsEnemies([p |-> g.player, n |-> g.tdOk, log |-> g.obs.contacts],
                         g.enemies, 1), LAMBDA a :
    With(ProjectilesVsEnemies([prs |-> g.projectiles, es |-> g.enemies,
                               kills |-> g.killCount, deaths |-> g.deaths,
                               late |-> g.obs.late], 1), LAMBDA b :
    With(ProjectilesVsPlayer([p |-> a.p, prs |-> b.prs, n |-> a.n, late |-> b.late], 1),
         LAMBDA c :
        [g EXCEPT !.player = c.p, !.enemies = b.es, !.projectiles = c.prs,
                  !.killCount = b.kills, !.deaths = b.deaths, !.tdOk = c.n,
                  !.obs.contacts = a.log, !.obs.late = c.late,
                  !.maxHits = Max(@, MostHits(c.prs, 1))])))

\* a point of one arena edge (0 top, 1 right, 2 bottom, 3 left), u of SpawnSteps
\* along it: Utils.randomRange(margin, size - margin)
EdgePoint(edge, u) ==
    LET along(size) == Pt(SPAWN_MARGIN) + TruncDiv(u * (Pt(size) - 2 * Pt(SPAWN_MARGIN)), SpawnSteps)
    IN CASE edge = 0 -> [x |-> along(ARENA_WIDTH), y |-> -Pt(SPAWN_MARGIN)]
         [] edge = 1 -> [x |-> Pt(ARENA_WIDTH) + Pt(SPAWN_MARGIN), y |-> along(ARENA_HEIGHT)]
         [] edge = 2 -> [x |-> along(ARENA_WIDTH), y |-> Pt(ARENA_HEIGHT) + Pt(SPAWN_MARGIN)]
         [] edge = 3 -> [x |-> -Pt(SPAWN_MARGIN), y |-> along(ARENA_HEIGHT)]

\* a spawnEnemy that keeps the first point whatever its distance
C12_NoRetry(p, edge, u1, u2) == EdgePoint(edge, u1)

\* where Game.spawnEnemy puts the enemy: the first point, or a point of the
\* opposite edge when the first is closer to the player than the safety distance
SpawnPoint(p, edge, u1, u2) ==
    LET first == EdgePoint(edge, u1)
    IN IF Dist2(first.x, first.y, p.x, p.y)
            < Pt(SPAWN_SAFETY_DISTANCE) * Pt(SPAWN_SAFETY_DISTANCE)
       THEN EdgePoint((edge + 2) % 4, u2)
       ELSE first

\* is the point q at least the safety distance away from the player p
IsSafeFrom(q, p) ==
    Dist2(q.x, q.y, p.x, p.y) >= Pt(SPAWN_SAFETY_DISTANCE) * Pt(SPAWN_SAFETY_DISTANCE)

\* Game.spawnEnemy; rnd holds the draws of Utils.randomInt / randomRange.
\* obs.spawns records the call: where the enemy was put, where the player was,
\* and whether the first point and the opposite-edge point were safe.
SpawnEnemy(g, rnd) ==
    LET at == SpawnPoint(g.player, rnd.edge, rnd.u1, rnd.u2)
        made == [id |-> g.nextId, x |-> at.x, y |-> at.y,
                 px |-> g.player.x, py |-> g.player.y,
                 firstSafe |-> IsSafeFrom(EdgePoint(rnd.edge, rnd.u1), g.player),
                 retrySafe |-> IsSafeFrom(EdgePoint((rnd.edge + 2) % 4, rnd.u2), g.player),
                 gap |-> g.obs.sinceSpawn]
    IN [g EXCEPT !.enemies = Append(@, EnemyRegistry(rnd.enemyType, g.nextId, at.x, at.y)),
                 !.nextId = @ + 1,
                 !.obs.spawns = Append(@, made),
                 !.obs.sinceSpawn = 0]

\* a spawn step that leaves the timer running after it has spawned
C13_TimerNotReset(g, deltaTime, rnd) ==
    With([g EXCEPT !.obs.sinceSpawn =
                      IF @ = -1 THEN -1 ELSE Min(@ + deltaTime, ENEMY_SPAWN_INTERVAL)],
         LAMBDA t :
            IF t.enemySpawnTimer + deltaTime >= ENEMY_SPAWN_INTERVAL
            THEN [SpawnEnemy(t, rnd) EXCEPT !.enemySpawnTimer = @ + deltaTime]
            ELSE [t EXCEPT !.enemySpawnTimer = @ + deltaTime])

\* Game.updatePlaying, "Spawn enemies": the timer accumulates deltaTime and an
\* enemy is spawned when it reaches the interval.  obs.sinceSpawn is the
\* simulated time since the last spawn (-1: none yet), kept up to the interval.
SpawnStep(g, deltaTime, rnd) ==
    With([g EXCEPT !.obs.sinceSpawn =
                      IF @ = -1 THEN -1 ELSE Min(@ + deltaTime, ENEMY_SPAWN_INTERVAL)],
         LAMBDA t :
            IF t.enemySpawnTimer + deltaTime >= ENEMY_SPAWN_INTERVAL
            THEN [SpawnEnemy(t, rnd) EXCEPT !.enemySpawnTimer = 0]
            ELSE [t EXCEPT !.enemySpawnTimer = @ + deltaTime])

\* Game.updatePlaying, "Update enemies": enemies.forEach(enemy => enemy.update(...)).
\* acc = [es, p, prs, n, calls, dead, noop, log]: calls counts the update calls, dead
\* is the kinds of enemy updated while the player was not alive, noop whether
\* each of those calls left the enemy, the player and the projectile list as
\* they were, log the contacts that dealt damage, shots the Shooter.update
\* calls: the player's alive flag, fireTimer before and after, projectiles added
EnemyUpdateCall(acc, i, deltaTime, spread) ==
         CASE acc.es[i].kind = "shooter" ->
                     With(ShooterUpdate(acc.es[i], deltaTime, acc.p, acc.prs, spread),
                          LAMBDA sh :
                             [acc EXCEPT !.es[i] = sh.e, !.prs = sh.projectiles,
                                         !.shots = Append(@,
                                            [id |-> sh.e.id, alive |-> acc.p.alive,
                                             moving |-> acc.es[i].isMoving,
                                             t0 |-> acc.es[i].fireTimer,
                                             t1 |-> sh.e.fireTimer,
                                             made |-> SubSeq(sh.projectiles,
                                                             Len(acc.prs) + 1,
                                                             Len(sh.projectiles))])])
                [] acc.es[i].kind = "tank" ->
                     With(TankUpdate(acc.es[i], deltaTime, acc.p),
                          LAMBDA tk : [acc EXCEPT !.es[i] = tk.e, !.p = tk.p,
                                                  !.n = @ + (IF tk.ok THEN 1 ELSE 0),
                                                  !.log = IF tk.ok
                                                          THEN Append(@, Contact(tk.e, "update",
                                                                                 acc.p, tk.p))
                                                          ELSE @])
                [] OTHER ->
                     [acc EXCEPT !.es[i] = AssassinUpdate(acc.es[i], deltaTime, acc.p)]

\* an enemies loop that leaves out the last enemy of the list
RECURSIVE C20_SkipsNewest(_, _, _, _)
C20_SkipsNewest(acc, i, deltaTime, spread) ==
    IF i >= Len(acc.es) THEN acc
    ELSE With(EnemyUpdateCall(acc, i, deltaTime, spread), LAMBDA a :
              C20_SkipsNewest([a EXCEPT !.calls = @ + 1], i + 1, deltaTime, spread))

RECURSIVE UpdateEnemies(_, _, _, _)
UpdateEnemies(acc, i, deltaTime, spread) ==
    IF i > Len(acc.es) THEN acc
    ELSE With(EnemyUpdateCall(acc, i, deltaTime, spread), LAMBDA a :
              UpdateEnemies(
                  [a EXCEPT !.calls = @ + 1,
                            !.dead = IF acc.p.alive THEN @ ELSE @ \cup {acc.es[i].kind},
                            !.noop = IF acc.p.alive THEN @
                                     ELSE @ /\ a.es[i] = acc.es[i] /\ a.p = acc.p
                                            /\ a.prs = acc.prs /\ a.n = acc.n],
                  i + 1, deltaTime, spread))

\* ProjectileUpdate over the list
UpdateProjectiles(prs, deltaTime) ==
    [j \in 1..Len(prs) |-> ProjectileUpdate(prs[j], deltaTime)]

\* a cull that keeps the dead
C36_KeepsDead(e) == TRUE

\* the filter of the culls: entity => entity.alive
IsAliveEntity(e) == e.alive

\* Game.toggleWeapon
ToggleWeapon(g) ==
    LET k == IF g.currentWeaponKey = "pistol" THEN "machine_gun" ELSE "pistol"
    IN [g EXCEPT !.currentWeaponKey = k, !.player.weapon = k]

\* Game.applyCreatorModeModifications
ApplyCreatorModeModifications(g) ==
    LET orig == IF g.originalPistolFireRate = 0 THEN g.weapons.pistol.fireRate
                ELSE g.originalPistolFireRate
    IN [g EXCEPT !.originalPistolFireRate = orig,
                 !.weapons.pistol.fireRate = orig \div CREATOR_RATE_DIVISOR]

\* Game.revertCreatorModeModifications
RevertCreatorModeModifications(g) ==
    IF g.originalPistolFireRate # 0
    THEN [g EXCEPT !.weapons.pistol.fireRate = g.originalPistolFireRate]
    ELSE g

\* Game.toggleCreatorMode
ToggleCreatorMode(g) ==
    LET t == [g EXCEPT !.creatorMode = ~@]
    IN IF t.creatorMode THEN ApplyCreatorModeModifications(t)
       ELSE RevertCreatorModeModifications(t)

\* Player.fire -> Weapon.fire of the equipped weapon, with the log of the call
PlayerFire(g, clock, targetX, targetY) ==
    LET k == g.player.weapon
        w == g.weapons[k]
        r == WeaponFire(w, g.projectiles, clock, g.player.x, g.player.y, targetX, targetY)
        prev == g.fireLog[k]
    IN [g EXCEPT !.weapons[k] = r.w, !.projectiles = r.projectiles,
                 !.lastResult = r.ok,
                 !.fireLog[k] = IF r.ok
                                THEN [last |-> clock,
                                      gap |-> IF prev.last = -1 THEN -1 ELSE clock - prev.last,
                                      rate |-> w.fireRate,
                                      fired |-> prev.fired + 1]
                                ELSE prev]

\* Game.updatePlaying.  inp = [move, fire, mouse] is what the input provider
\* reports this frame, rnd the random draws of the frame.
\* the step s is entered in the tick's log of sub-steps
Step(g, s) == [g EXCEPT !.obs.steps = Append(@, s)]

\* Game.updatePlaying
UpdatePlaying(g, deltaTime, clock, inp, rnd) ==
    \* player.update
    With([Step(g, "player")
             EXCEPT !.obs.fireAsked = inp.fire,
                    !.player = PlayerUpdate([g.player EXCEPT !.creatorMode = g.creatorMode],
                                            deltaTime, inp.move)], LAMBDA g1 :
    \* firing
    With(IF inp.fire THEN PlayerFire(Step(g1, "fire"), clock, inp.mouse.x, inp.mouse.y)
         ELSE g1, LAMBDA g2 :
    \* weapon switching
    With(IF g2.input.switchWeapon
         THEN [ToggleWeapon(Step(g2, "switch")) EXCEPT !.input.switchWeapon = FALSE,
                                                       !.input.lastWeaponSwitchTime = clock]
         ELSE g2, LAMBDA g3 :
    \* creator mode toggle
    With(IF g3.input.creatorMode
         THEN [ToggleCreatorMode(Step(g3, "creator"))
                  EXCEPT !.input.creatorMode = FALSE,
                         !.input.lastCreatorModeToggleTime = clock]
         ELSE g3, LAMBDA g4 :
    \* enemy spawning
    With(SpawnStep(Step(g4, "spawn"), deltaTime, rnd), LAMBDA g5 :
    \* enemies, then projectiles
    With(UpdateEnemies([es |-> g5.enemies, p |-> g5.player, prs |-> g5.projectiles,
                        n |-> g5.tdOk, calls |-> 0, dead |-> {}, noop |-> TRUE,
                        log |-> g5.obs.contacts, shots |-> <<>>],
                       1, deltaTime, rnd.spread), LAMBDA u :
    With([Step(Step(g5, "enemies"), "projectiles")
             EXCEPT !.enemies = u.es, !.player = u.p, !.tdOk = u.n,
                    !.projectiles = UpdateProjectiles(u.prs, deltaTime),
                    !.obs.enemyCalls = u.calls, !.obs.enemyLen = Len(g5.enemies),
                    !.obs.projCalls = Len(UpdateProjectiles(u.prs, deltaTime)),
                    !.obs.projLen = Len(u.prs),
                    !.obs.deadKinds = u.dead, !.obs.deadNoop = u.noop,
                    !.obs.contacts = u.log, !.obs.shots = u.shots], LAMBDA g6 :
    \* collisions, then the dead are dropped
    With(HandleCollisions(Step(g6, "collisions")), LAMBDA g7 :
    With([Step(g7, "cull") EXCEPT !.enemies = SelectSeq(@, IsAliveEntity),
                                  !.projectiles = SelectSeq(@, IsAliveEntity),
                                  !.obs.culled = SelectSeq(g7.projectiles,
                                                           LAMBDA pr : ~IsAliveEntity(pr))],
         LAMBDA g8 :
        IF ~g8.player.alive THEN SetState(Step(g8, "gameOver"), "game_over")
        ELSE Step(g8, "gameOver"))))))))))

\* Game.updateGameOver
UpdateGameOver(g, deltaTime) == g

\* Game.update, the switch on the current state
UpdateDispatch(g, deltaTime, clock, inp, rnd) ==
    CASE g.currentState = "playing" -> UpdatePlaying(g, deltaTime, clock, inp, rnd)
      [] g.currentState = "game_over" -> UpdateGameOver(g, deltaTime)
      [] OTHER -> g

\* the fields of the game a collision pass can write
Collidable(g) == <<g.player, g.enemies, g.projectiles, g.killCount>>

\* the observation before the first tick; since is the simulated time since
\* the last spawn
StartObs(since) ==
    [steps |-> <<>>, fireAsked |-> FALSE, spawns |-> <<>>, sinceSpawn |-> since,
     enemyCalls |-> 0, enemyLen |-> 0, projCalls |-> 0, projLen |-> 0,
     deadKinds |-> {}, deadNoop |-> TRUE, wasPlaying |-> FALSE, lastPassIdle |-> TRUE,
     contacts |-> <<>>, hp0 |-> 0, culled |-> <<>>, late |-> {}, shots |-> <<>>]

\* the observation of one tick, before anything has run
NewObs(g) ==
    [StartObs(g.obs.sinceSpawn) EXCEPT !.wasPlaying = g.currentState = "playing",
                                       !.hp0 = g.player.hp]

\* Game.update
Update(g, deltaTime, clock, inp, rnd) ==
    With(UpdateDispatch([g EXCEPT !.obs = NewObs(g)], deltaTime, clock, inp, rnd),
         LAMBDA g1 :
    With(HandleCollisions(g1), LAMBDA g2 :
    With([g2 EXCEPT !.obs.lastPassIdle = (Collidable(g2) = Collidable(g1))], LAMBDA g3 :
        IF ~g3.player.alive /\ g3.currentState = "playing"
        THEN SetState(g3, "game_over")
        ELSE g3)))

\* an initGameObjects that keeps the kill counter
C9_KeepsKillCount(g) ==
    [g EXCEPT !.player = [NewPlayer(Pt(ARENA_WIDTH) \div 2, Pt(ARENA_HEIGHT) \div 2)
                              EXCEPT !.weapon = "pistol"],
              !.weapons = [pistol |-> NewPistol, machine_gun |-> NewMachineGun],
              !.currentWeaponKey = "pistol",
              !.enemies = <<>>,
              !.projectiles = <<>>,
              !.enemySpawnTimer = 0]

\* an initGameObjects that keeps the player object it finds
C27_KeepsPlayer(g) ==
    [g EXCEPT !.weapons = [pistol |-> NewPistol, machine_gun |-> NewMachineGun],
              !.currentWeaponKey = "pistol",
              !.enemies = <<>>,
              !.projectiles = <<>>,
              !.killCount = 0,
              !.enemySpawnTimer = 0]

\* Game.initGameObjects
InitGameObjects(g) ==
    [g EXCEPT !.player = [NewPlayer(Pt(ARENA_WIDTH) \div 2, Pt(ARENA_HEIGHT) \div 2)
                              EXCEPT !.weapon = "pistol"],
              !.weapons = [pistol |-> NewPistol, machine_gun |-> NewMachineGun],
              !.currentWeaponKey = "pistol",
              !.enemies = <<>>,
              !.projectiles = <<>>,
              !.killCount = 0,
              !.enemySpawnTimer = 0]

\* Game.restart
RestartGame(g) == SetState(InitGameObjects(g), "playing")

\* ----------------------------------------------------------------- variables
VARIABLES
    \* registry Game (src/js/main.js)
    player, weapons, currentWeaponKey, enemies, projectiles, killCount,
    enemySpawnTimer, creatorMode, originalPistolFireRate, currentState,
    input,      \* InputManager: switchWeapon / creatorMode flags and their cooldown clocks
    now,        \* the wall clock (Date.now, performance.now), in ticks
    \* observation of the run
    emitted,    \* stateChanged events emitted by the last step
    lastOp,     \* the operation the last step performed
    lastDt,     \* deltaTime of the last update
    lastResult, \* return value of the last fire() call
    deaths,     \* ids of the enemies that died since the last restart
    nextId,     \* next enemy id
    tdOk,       \* Player.takeDamage calls that returned true in the last update
    maxHits,    \* most takeDamage calls caused by one projectile in the last update
    sinceHit,   \* dt fed to Player.update since takeDamage last returned true (-1: never)
    ticks,      \* frames run
    keys,       \* key presses handled
    fireLog,    \* per weapon: clock of its last successful fire, gap and rate at it
    obs,        \* the last update's sub-steps, spawns and enemy update calls
    \* monolithic version (src/main.js)
    gameState, inputManager,
    \* the frame loop of the registry Game (src/js/main.js)
    isRunning,  \* Game.isRunning
    pending,    \* gameLoop callbacks requestAnimationFrame holds
    frameSteps, \* update-then-render steps run in the last display frame
    \* modular version (src/main.js GameEngine, src/js/game.js, gameState.js, entities.js)
    engine,     \* GameEngine: isRunning, isPaused and its Game
    engineObs,  \* the last call: passes over the entities, whether it threw
    \* utilities (src/js/utils.js createTimer, src/js/input.js InputManager)
    timerObj,   \* a timer made by createTimer
    timerFed,   \* dt fed to the timer since it was made or last reset
    manager,    \* the InputManager and its keyboard and mouse provider
    heldRun     \* per action: updates in a row that found its key held

gameVars == <<player, weapons, currentWeaponKey, enemies, projectiles, killCount,
              enemySpawnTimer, creatorMode, originalPistolFireRate, currentState, input>>
obsVars == <<emitted, lastOp, lastDt, lastResult, deaths, nextId, tdOk, maxHits, sinceHit,
            ticks, keys, fireLog, obs>>
monoVars == <<gameState, inputManager>>
loopVars == <<isRunning, pending, frameSteps>>
engineVars == <<engine, engineObs>>
utilVars == <<timerObj, timerFed, manager, heldRun>>
vars == <<gameVars, now, obsVars, monoVars, loopVars, engineVars, utilVars>>

\* ------------------------------------------- the monolithic game (src/main.js)
\* CONFIG, times in ticks of 1/60 s
canvasWidth == 1200
canvasHeight == 800
playerRadius == 16
playerSpeed == 220
playerHealth == 3
playerInvulnerabilityTime == 48
enemySpawnInterval == 120
enemySpawnMinDistance == 150
enemyContactDamageCooldown == 42
assassinRadius == 14
assassinSpeed == 200
assassinHealth == 1
shooterRadius == 14
shooterHealth == 1
telegraphTime == 21
fireInterval == 120
shooterBulletSpeed == 400
shooterBulletRadius == 4
bulletLifetime == 150
tankRadius == 20
tankSpeed == 120
tankHealth == 3
tankKnockback == 8
flashTime == 6
machineGunFireRate == 30
pistolFireRate == 60
machineGunAmmo == 30
bulletSpeed == 600
bulletRadius == 4
muzzleOffset == 5

\* the list without its i-th element: splice(i, 1)
Splice(seq, i) == SubSeq(seq, 1, i - 1) \o SubSeq(seq, i + 1, Len(seq))

\* new InputManager() of src/main.js
NewInputManager ==
    [moveVector |-> [x |-> 0, y |-> 0], mousePosition |-> [x |-> 0, y |-> 0],
     fire |-> FALSE, pickup |-> FALSE, switchWeapon |-> FALSE]

\* InputManager.reset
InputReset(im) ==
    [im EXCEPT !.moveVector = [x |-> 0, y |-> 0], !.fire = FALSE, !.pickup = FALSE,
               !.switchWeapon = FALSE]

\* new Player(x, y) of src/main.js
MonoPlayer(x, y) ==
    [x |-> x, y |-> y, radius |-> Pt(playerRadius), speed |-> Vel(playerSpeed),
     health |-> playerHealth, isInvulnerable |-> FALSE, invulnerabilityTimer |-> 0,
     currentWeapon |-> "Machine Gun", machineGunAmmo |-> machineGunAmmo,
     lastFireTime |-> 0]

\* let gameState = {...}, with the player initGame creates
InitialGameState ==
    [currentState |-> "PLAYING",
     player |-> MonoPlayer(Pt(canvasWidth) \div 2, Pt(canvasHeight) \div 2),
     enemies |-> <<>>, bullets |-> <<>>, enemyBullets |-> <<>>, score |-> 0,
     lastEnemySpawnTime |-> 0]

\* new Bullet(x, y, dirX, dirY); dirX, dirY hold direction * speed per tick
MonoBullet(x, y, dirX, dirY) ==
    [x |-> x, y |-> y, dirX |-> dirX, dirY |-> dirY, radius |-> Pt(bulletRadius)]

\* new EnemyBullet(x, y, dirX, dirY)
EnemyBullet(x, y, dirX, dirY, clock) ==
    [x |-> x, y |-> y, dirX |-> dirX, dirY |-> dirY, radius |-> Pt(shooterBulletRadius),
     creationTime |-> clock]

\* checkCollision of src/main.js: distance < r1 + r2, no epsilon
CheckCollision(obj1, obj2) ==
    Dist2(obj1.x, obj1.y, obj2.x, obj2.y)
        < (obj1.radius + obj2.radius) * (obj1.radius + obj2.radius)

\* Bullet.isOutOfBounds / EnemyBullet.isOutOfBounds
IsOutOfBounds(b) ==
    \/ b.x < -b.radius \/ b.x > Pt(canvasWidth) + b.radius
    \/ b.y < -b.radius \/ b.y > Pt(canvasHeight) + b.radius

\* EnemyBullet.isExpired
IsExpired(b, clock) == clock - b.creationTime > bulletLifetime

\* Bullet.update / EnemyBullet.update
BulletUpdate(b, dt) == [b EXCEPT !.x = @ + b.dirX * dt, !.y = @ + b.dirY * dt]

\* new Assassin / new Shooter / new Tank of src/main.js, one record shape
MonoEnemy(type, x, y) ==
    [type |-> type, x |-> x, y |-> y, lastDamageTime |-> 0,
     radius |-> CASE type = "assassin" -> Pt(assassinRadius)
                  [] type = "shooter" -> Pt(shooterRadius)
                  [] type = "tank" -> Pt(tankRadius),
     speed |-> CASE type = "assassin" -> Vel(assassinSpeed)
                 [] type = "shooter" -> 0
                 [] type = "tank" -> Vel(tankSpeed),
     health |-> CASE type = "assassin" -> assassinHealth
                  [] type = "shooter" -> shooterHealth
                  [] type = "tank" -> tankHealth,
     telegraphing |-> FALSE, telegraphTimer |-> 0, lastFireTime |-> 0,
     isFlashing |-> FALSE, flashTimer |-> 0]

\* The operators below work on m = [gs |-> gameState, im |-> inputManager].

\* Player.switchWeapon
SwitchWeapon(p) ==
    [p EXCEPT !.currentWeapon = IF @ = "Machine Gun" THEN "Pistol" ELSE "Machine Gun"]

\* Player.tryToFire
TryToFire(m, targetPosition, clock) ==
    LET p == m.gs.player
        fireRate == IF p.currentWeapon = "Machine Gun" THEN machineGunFireRate
                    ELSE pistolFireRate
        dx == targetPosition.x - p.x
        dy == targetPosition.y - p.y
        off == NormalizeTimes(dx, dy, p.radius + Pt(muzzleOffset))
        dir == NormalizeTimes(dx, dy, Vel(bulletSpeed))
    IN IF clock - p.lastFireTime >= fireRate
       THEN IF p.currentWeapon = "Machine Gun" /\ p.machineGunAmmo <= 0
            THEN [m EXCEPT !.gs.player.currentWeapon = "Pistol"]
            ELSE [m EXCEPT !.gs.bullets =
                               Append(@, MonoBullet(p.x + off.x, p.y + off.y, dir.x, dir.y)),
                           !.gs.player.machineGunAmmo =
                               IF p.currentWeapon = "Machine Gun" THEN @ - 1 ELSE @,
                           !.gs.player.lastFireTime = clock]
       ELSE m

\* Player.update of src/main.js
MonoPlayerUpdate(m, dt, clock) ==
    LET p == m.gs.player
        v == NormalizeTimes(m.im.moveVector.x, m.im.moveVector.y, p.speed)
        x == Max(p.radius, Min(Pt(canvasWidth) - p.radius, p.x + v.x * dt))
        y == Max(p.radius, Min(Pt(canvasHeight) - p.radius, p.y + v.y * dt))
        timer == IF p.isInvulnerable THEN p.invulnerabilityTimer - dt
                 ELSE p.invulnerabilityTimer
        moved == [p EXCEPT !.x = x, !.y = y, !.invulnerabilityTimer = timer,
                           !.isInvulnerable = IF @ /\ timer <= 0 THEN FALSE ELSE @]
    IN With([m EXCEPT !.gs.player = IF m.im.switchWeapon THEN SwitchWeapon(moved) ELSE moved,
                      !.im.switchWeapon = FALSE],
            LAMBDA m1 : IF m1.im.fire THEN TryToFire(m1, m1.im.mousePosition, clock) ELSE m1)

\* Player.takeDamage of src/main.js, on gameState
MonoTakeDamage(gs) ==
    IF gs.player.isInvulnerable THEN gs
    ELSE [gs EXCEPT !.player.health = @ - 1,
                    !.player.isInvulnerable = TRUE,
                    !.player.invulnerabilityTimer = playerInvulnerabilityTime,
                    !.currentState = IF gs.player.health - 1 <= 0 THEN "GAME_OVER" ELSE @]

\* Assassin.update / the movement of Tank.update, src/main.js
Chase(e, p, dt) ==
    LET direction == NormalizeTimes(p.x - e.x, p.y - e.y, e.speed)
    IN [e EXCEPT !.x = @ + direction.x * dt, !.y = @ + direction.y * dt]

\* Tank.update of src/main.js
MonoTankUpdate(e, p, dt) ==
    LET c == Chase(e, p, dt)
        timer == IF c.isFlashing THEN c.flashTimer - dt ELSE c.flashTimer
    IN [c EXCEPT !.flashTimer = timer,
                 !.isFlashing = IF @ /\ timer <= 0 THEN FALSE ELSE @]

\* Shooter.fire: the bullet it pushes on gameState.enemyBullets; spread in
\* 1/100 rad (small-angle), atan2(0, 0) = 0
ShooterFire(e, p, spread, clock) ==
    LET dx == p.x - e.x
        dy == p.y - e.y
        base == IF dx = 0 /\ dy = 0 THEN [x |-> Vel(shooterBulletSpeed), y |-> 0]
                ELSE NormalizeTimes(dx, dy, Vel(shooterBulletSpeed))
    IN EnemyBullet(e.x, e.y, base.x - TruncDiv(spread * base.y, 100),
                   base.y + TruncDiv(spread * base.x, 100), clock)

\* Shooter.update of src/main.js: [e |-> the shooter, fired |-> <<>> or <<bullet>>]
MonoShooterUpdate(e, p, dt, clock, spread) ==
    IF e.telegraphing
    THEN IF e.telegraphTimer - dt <= 0
         THEN [e |-> [e EXCEPT !.telegraphTimer = @ - dt, !.telegraphing = FALSE,
                               !.lastFireTime = clock],
               fired |-> <<ShooterFire(e, p, spread, clock)>>]
         ELSE [e |-> [e EXCEPT !.telegraphTimer = @ - dt], fired |-> <<>>]
    ELSE IF clock - e.lastFireTime >= fireInterval
    THEN [e |-> [e EXCEPT !.telegraphing = TRUE, !.telegraphTimer = telegraphTime],
          fired |-> <<>>]
    ELSE [e |-> e, fired |-> <<>>]

\* Enemy.canDamagePlayer
CanDamagePlayer(e, clock) == clock - e.lastDamageTime >= enemyContactDamageCooldown

\* Enemy.takeDamage / Tank.takeDamage of src/main.js
MonoEnemyTakeDamage(e, p, amount) ==
    IF e.type = "tank"
    THEN LET direction == NormalizeTimes(e.x - p.x, e.y - p.y, Pt(tankKnockback))
         IN [e EXCEPT !.health = @ - amount, !.isFlashing = TRUE, !.flashTimer = flashTime,
                      !.x = @ + direction.x, !.y = @ + direction.y]
    ELSE [e EXCEPT !.health = @ - amount]

\* update(dt), "Update enemies": for (i = enemies.length - 1; i >= 0; i--)
RECURSIVE MonoUpdateEnemies(_, _, _, _, _)
MonoUpdateEnemies(gs, i, dt, clock, spread) ==
    IF i < 1 THEN gs
    ELSE With(MonoShooterUpdate(gs.enemies[i], gs.player, dt, clock, spread), LAMBDA sh :
         With(CASE gs.enemies[i].type = "assassin" -> Chase(gs.enemies[i], gs.player, dt)
                [] gs.enemies[i].type = "shooter" -> sh.e
                [] gs.enemies[i].type = "tank" -> MonoTankUpdate(gs.enemies[i], gs.player, dt),
              LAMBDA e1 :
         With(CheckCollision(e1, gs.player) /\ CanDamagePlayer(e1, clock), LAMBDA hit :
         With([gs EXCEPT !.enemies[i] = IF hit THEN [e1 EXCEPT !.lastDamageTime = clock]
                                        ELSE e1,
                         !.enemyBullets = IF gs.enemies[i].type = "shooter"
                                          THEN @ \o sh.fired ELSE @],
              LAMBDA gs1 :
         With(IF hit THEN MonoTakeDamage(gs1) ELSE gs1,
              LAMBDA gs2 : MonoUpdateEnemies(gs2, i - 1, dt, clock, spread))))))

\* the enemy a bullet hits: the last one of the list that it overlaps, 0 for none
RECURSIVE FirstHit(_, _, _)
FirstHit(b, es, j) ==
    IF j < 1 THEN 0
    ELSE IF CheckCollision(b, es[j]) THEN j ELSE FirstHit(b, es, j - 1)

\* update(dt), "Update player bullets"
RECURSIVE MonoUpdateBullets(_, _, _)
MonoUpdateBullets(gs, i, dt) ==
    IF i < 1 THEN gs
    ELSE With(BulletUpdate(gs.bullets[i], dt), LAMBDA b :
         With(FirstHit(b, gs.enemies, Len(gs.enemies)), LAMBDA j :
         With(IF IsOutOfBounds(b) THEN [gs EXCEPT !.bullets = Splice(@, i)]
              ELSE IF j = 0 THEN [gs EXCEPT !.bullets[i] = b]
              ELSE With(MonoEnemyTakeDamage(gs.enemies[j], gs.player, 1), LAMBDA hurt :
                        [gs EXCEPT !.bullets = Splice(@, i),
                                   !.enemies = IF hurt.health <= 0 THEN Splice(@, j)
                                               ELSE [@ EXCEPT ![j] = hurt],
                                   !.score = IF hurt.health <= 0 THEN @ + 1 ELSE @]),
              LAMBDA gs1 : MonoUpdateBullets(gs1, i - 1, dt))))

\* update(dt), "Update enemy bullets"
RECURSIVE MonoUpdateEnemyBullets(_, _, _, _)
MonoUpdateEnemyBullets(gs, i, dt, clock) ==
    IF i < 1 THEN gs
    ELSE With(BulletUpdate(gs.enemyBullets[i], dt), LAMBDA b :
         With(IF IsOutOfBounds(b) \/ IsExpired(b, clock)
              THEN [gs EXCEPT !.enemyBullets = Splice(@, i)]
              ELSE IF CheckCollision(b, gs.player)
              THEN MonoTakeDamage([gs EXCEPT !.enemyBullets = Splice(@, i)])
              ELSE [gs EXCEPT !.enemyBullets[i] = b],
              LAMBDA gs1 : MonoUpdateEnemyBullets(gs1, i - 1, dt, clock)))

\* spawnEnemy of src/main.js; rnd holds the draws of Math.random
MonoSpawnEnemy(gs, rnd) ==
    LET alongX == TruncDiv(rnd.u1 * Pt(canvasWidth), SpawnSteps)
        alongY == TruncDiv(rnd.u1 * Pt(canvasHeight), SpawnSteps)
        at == CASE rnd.edge = 0 -> [x |-> alongX, y |-> 0]
                [] rnd.edge = 1 -> [x |-> Pt(canvasWidth), y |-> alongY]
                [] rnd.edge = 2 -> [x |-> alongX, y |-> Pt(canvasHeight)]
                [] rnd.edge = 3 -> [x |-> 0, y |-> alongY]
    IN IF Dist2(at.x, at.y, gs.player.x, gs.player.y)
            < Pt(enemySpawnMinDistance) * Pt(enemySpawnMinDistance)
       THEN gs
       ELSE [gs EXCEPT !.enemies = Append(@, MonoEnemy(rnd.enemyType, at.x, at.y))]

\* update(dt) of src/main.js
MonoUpdate(m, dt, clock, rnd) ==
    IF m.gs.currentState # "PLAYING" THEN m
    ELSE \* the player, the spawn, the enemies, the bullets, the enemy bullets
         With(MonoPlayerUpdate(m, dt, clock), LAMBDA m1 :
         With(IF clock - m1.gs.lastEnemySpawnTime >= enemySpawnInterval
              THEN [MonoSpawnEnemy(m1.gs, rnd) EXCEPT !.lastEnemySpawnTime = clock]
              ELSE m1.gs, LAMBDA gs2 :
         With(MonoUpdateEnemies(gs2, Len(gs2.enemies), dt, clock, rnd.spread), LAMBDA gs3 :
         With(MonoUpdateBullets(gs3, Len(gs3.bullets), dt), LAMBDA gs4 :
         With(MonoUpdateEnemyBullets(gs4, Len(gs4.enemyBullets), dt, clock), LAMBDA gs5 :
             [m1 EXCEPT !.gs = gs5])))))

\* restartGame of src/main.js
MonoRestartGame(m, clock) ==
    [gs |-> [m.gs EXCEPT !.currentState = "PLAYING",
                         !.enemies = <<>>,
                         !.bullets = <<>>,
                         !.score = 0,
                         !.lastEnemySpawnTime = clock,
                         !.player = MonoPlayer(Pt(canvasWidth) \div 2, Pt(canvasHeight) \div 2)],
     im |-> InputReset(m.im)]

\* InputManager.handleKeyDown / handleKeyUp and the mouse listeners of src/main.js
MonoHandleEvent(m, event, clock) ==
    CASE event = "keydown d" -> [m EXCEPT !.im.moveVector.x = 1]
      [] event = "keyup d" -> [m EXCEPT !.im.moveVector.x = IF @ = 1 THEN 0 ELSE @]
      [] event = "keydown r" -> [m EXCEPT !.im.switchWeapon = TRUE]
      [] event = "keyup r" -> [m EXCEPT !.im.switchWeapon = FALSE]
      [] event = "mousedown" -> [m EXCEPT !.im.fire = TRUE]
      [] event = "mouseup" -> [m EXCEPT !.im.fire = FALSE]
      [] event = "keydown Enter" ->
            IF m.gs.currentState = "GAME_OVER" THEN MonoRestartGame(m, clock) ELSE m

\* ------------------- the modular game (src/js/game.js, gameState.js, entities.js)
\* most nested Game.update calls the exploration lets the call stack hold
StackLimit == 3

\* js/config.js is not among the sources: the arena, the player, the enemy and
\* the bullet have the values the specification gives; times are in ticks
CONFIG ==
    [arenaWidth |-> Pt(ARENA_WIDTH), arenaHeight |-> Pt(ARENA_HEIGHT),
     performance |-> [targetFPS |-> 60, minFPS |-> 30],
     input |-> [keys |-> [fire |-> {"Mouse0", "Space"}, switchWeapon |-> {"KeyQ", "KeyE"},
                          restart |-> {"KeyR"}, pause |-> {"Escape"}]],
     player |-> [startX |-> Pt(ARENA_WIDTH) \div 2, startY |-> Pt(ARENA_HEIGHT) \div 2,
                 radius |-> Pt(PLAYER_RADIUS), speed |-> Vel(PLAYER_SPEED),
                 maxHealth |-> PLAYER_MAX_HP,
                 invulnerabilityDuration |-> PLAYER_IFRAME_DURATION,
                 flashDuration |-> PLAYER_FLASH_DURATION],
     enemy |-> [radius |-> Pt(ASSASSIN_RADIUS), speed |-> Vel(ASSASSIN_SPEED),
                health |-> 1, damage |-> 1, spawnInterval |-> ENEMY_SPAWN_INTERVAL,
                minDistanceFromPlayer |-> Pt(SPAWN_SAFETY_DISTANCE)],
     bullet |-> [radius |-> Pt(BULLET_RADIUS), speed |-> Vel(BULLET_SPEED),
                 maxDistance |-> Pt(ARENA_WIDTH)]]

\* createTimer(duration)
CreateTimer(duration) == [duration |-> duration, elapsed |-> 0, isComplete |-> FALSE]

\* an update that leaves elapsed where the addition put it
C31_NoClamp(t, dt) ==
    IF t.isComplete THEN t
    ELSE IF t.elapsed + dt >= t.duration
         THEN [t EXCEPT !.elapsed = @ + dt, !.isComplete = TRUE]
         ELSE [t EXCEPT !.elapsed = @ + dt]

\* createTimer(duration).update(dt)
TimerUpdate(t, dt) ==
    IF t.isComplete THEN t
    ELSE IF t.elapsed + dt >= t.duration
         THEN [t EXCEPT !.elapsed = t.duration, !.isComplete = TRUE]
         ELSE [t EXCEPT !.elapsed = @ + dt]

\* createTimer(duration).reset()
TimerReset(t) == [t EXCEPT !.elapsed = 0, !.isComplete = FALSE]

\* ---- src/js/input.js: InputManager over its keyboard and mouse provider ----
\* (moveVector, pickup and mousePosition are left out: no edge is detected on them)

\* the key codes and mouse buttons the events carry
KeyCodes == {"KeyQ", "KeyE", "KeyR", "Escape", "Space"}
MouseCodes == {"Mouse0"}

\* the actions an edge is detected on
EdgeActions == {"fire", "switchWeapon", "restart", "pause"}

NoActions == [a \in EdgeActions |-> FALSE]

\* new KeyboardMouseProvider(canvas)
NewKeyboardMouseProvider == [keys |-> {}, mouseButtons |-> {}, state |-> NoActions]

\* KeyboardMouseProvider.isKeyPressed(keyArray)
IsKeyPressed(p, keyArray) ==
    \E key \in keyArray :
        IF key \in MouseCodes THEN key \in p.mouseButtons ELSE key \in p.keys

\* KeyboardMouseProvider.update(): the action keys
KeyboardMouseProviderUpdate(p) ==
    [p EXCEPT !.state = [a \in EdgeActions |-> IsKeyPressed(p, CONFIG.input.keys[a])]]

\* new InputManager(canvas): the keyboard and mouse provider is the current one
NewModInputManager ==
    [currentProvider |-> NewKeyboardMouseProvider, state |-> NoActions,
     previousState |-> NoActions]

\* an update that does not store the previous state
C34_NoPrevious(m) ==
    With(KeyboardMouseProviderUpdate(m.currentProvider), LAMBDA p :
        [m EXCEPT !.currentProvider = p, !.state = p.state])

\* InputManager.update()
InputManagerUpdate(m) ==
    With(KeyboardMouseProviderUpdate(m.currentProvider), LAMBDA p :
        [m EXCEPT !.previousState = m.state, !.currentProvider = p, !.state = p.state])

\* InputManager.isFirePressed / isSwitchWeaponPressed / isRestartPressed / isPausePressed
IsActionPressed(m, a) == m.state[a] /\ ~m.previousState[a]

\* the utilities at rest, for the runs that do not use them
IdleUtil ==
    /\ timerObj = CreateTimer(1)
    /\ timerFed = 0
    /\ manager = NewModInputManager
    /\ heldRun = [a \in EdgeActions |-> 0]

\* new Player(x, y) of entities.js (the weapons are left out: nothing here fires)
NewModPlayer(x, y) ==
    [x |-> x, y |-> y, radius |-> CONFIG.player.radius, speed |-> CONFIG.player.speed,
     health |-> CONFIG.player.maxHealth, maxHealth |-> CONFIG.player.maxHealth,
     active |-> TRUE, invulnerable |-> FALSE,
     invulnerabilityTimer |-> [duration |-> CONFIG.player.invulnerabilityDuration,
                               elapsed |-> 0, isComplete |-> FALSE],
     flashTimer |-> [duration |-> CONFIG.player.flashDuration,
                     elapsed |-> 0, isComplete |-> FALSE],
     isDamaged |-> FALSE, velocity |-> [x |-> 0, y |-> 0]]

\* new Enemy(x, y)
NewModEnemy(x, y) ==
    [x |-> x, y |-> y, radius |-> CONFIG.enemy.radius, speed |-> CONFIG.enemy.speed,
     health |-> CONFIG.enemy.health, maxHealth |-> 1, damage |-> CONFIG.enemy.damage,
     active |-> TRUE, velocity |-> [x |-> 0, y |-> 0], targetX |-> 0, targetY |-> 0]

\* new Bullet(x, y, dirX, dirY); the direction is in 1/10000
NewModBullet(x, y, dirX, dirY) ==
    [x |-> x, y |-> y, radius |-> CONFIG.bullet.radius, health |-> 1, maxHealth |-> 1,
     active |-> TRUE, dirX |-> dirX, dirY |-> dirY, speed |-> CONFIG.bullet.speed,
     distanceTraveled |-> 0, maxDistance |-> CONFIG.bullet.maxDistance]

\* checkCircleCollision of utils.js: distance < r1 + r2
ModCheckCircleCollision(a, b) ==
    Dist2(a.x, a.y, b.x, b.y) < (a.radius + b.radius) * (a.radius + b.radius)

\* Player.update of entities.js; moveVector is inputManager.moveVector
ModPlayerUpdate(p, dt, moveVector) ==
    LET inv == TimerUpdate(p.invulnerabilityTimer, dt)
        fl == TimerUpdate(p.flashTimer, dt)
        q == [p EXCEPT !.invulnerabilityTimer = inv, !.flashTimer = fl,
                       !.invulnerable = IF inv.isComplete THEN FALSE ELSE @,
                       !.isDamaged = ~fl.isComplete]
    IN IF moveVector.x # 0 \/ moveVector.y # 0
       THEN [q EXCEPT !.velocity = [x |-> moveVector.x * q.speed, y |-> moveVector.y * q.speed],
                      !.x = Clamp(@ + moveVector.x * q.speed * dt,
                                  q.radius, CONFIG.arenaWidth - q.radius),
                      !.y = Clamp(@ + moveVector.y * q.speed * dt,
                                  q.radius, CONFIG.arenaHeight - q.radius)]
       ELSE q

\* Player.takeDamage of entities.js: [p |-> the player, damaged |-> the return value]
ModTakeDamage(p, amount) ==
    IF p.invulnerable THEN [p |-> p, damaged |-> FALSE]
    ELSE [p |-> [p EXCEPT !.health = @ - amount,
                          !.active = IF p.health - amount <= 0 THEN FALSE ELSE @,
                          !.invulnerable = TRUE,
                          !.invulnerabilityTimer.elapsed = 0,
                          !.invulnerabilityTimer.isComplete = FALSE,
                          !.flashTimer.elapsed = 0,
                          !.flashTimer.isComplete = FALSE,
                          !.isDamaged = TRUE],
          damaged |-> TRUE]

\* Enemy.update
ModEnemyUpdate(e, dt, playerX, playerY) ==
    LET v == NormalizeTimes(playerX - e.x, playerY - e.y, e.speed)
    IN [e EXCEPT !.targetX = playerX, !.targetY = playerY, !.velocity = v,
                 !.x = Clamp(@ + v.x * dt, e.radius, CONFIG.arenaWidth - e.radius),
                 !.y = Clamp(@ + v.y * dt, e.radius, CONFIG.arenaHeight - e.radius)]

\* Bullet.update
ModBulletUpdate(b, dt) ==
    LET distance == b.speed * dt
        x == b.x + TruncDiv(b.dirX * distance, 10000)
        y == b.y + TruncDiv(b.dirY * distance, 10000)
        gone == \/ b.distanceTraveled + distance > b.maxDistance
                \/ x < 0 \/ x > CONFIG.arenaWidth
                \/ y < 0 \/ y > CONFIG.arenaHeight
    IN [b EXCEPT !.x = x, !.y = y, !.distanceTraveled = @ + distance,
                 !.active = IF gone THEN FALSE ELSE @]

\* Game.handleCollisions of game.js, bullets against enemies: both loops run
\* from the end of the list, a bullet stops at the first enemy it overlaps.
\* acc = [bullets, enemies, kills |-> PlayingState.killCount]
RECURSIVE ModBulletsVsEnemies(_, _)
ModBulletsVsEnemies(acc, i) ==
    IF i = 0 THEN acc
    ELSE LET hits == {j \in 1..Len(acc.enemies) :
                         ModCheckCircleCollision(acc.bullets[i], acc.enemies[j])}
             j == CHOOSE m \in hits : \A k \in hits : k <= m
             left == acc.enemies[j].health - 1
         IN With(IF hits = {} THEN acc
                 ELSE [bullets |-> [acc.bullets EXCEPT ![i].active = FALSE],
                       enemies |-> [acc.enemies EXCEPT
                                       ![j].health = left,
                                       ![j].active = IF left <= 0 THEN FALSE ELSE @],
                       kills |-> IF left <= 0 \/ ~acc.enemies[j].active
                                 THEN acc.kills + 1 ELSE acc.kills],
                 LAMBDA a : ModBulletsVsEnemies(a, i - 1))

\* Game.handleCollisions of game.js
ModHandleCollisions(g) ==
    With(ModBulletsVsEnemies([bullets |-> g.bullets, enemies |-> g.enemies,
                              kills |-> g.playingState.killCount], Len(g.bullets)),
         LAMBDA a :
            LET touching == {j \in 1..Len(a.enemies) :
                                ModCheckCircleCollision(a.enemies[j], g.player)}
                j == CHOOSE m \in touching : \A k \in touching : k <= m
                hurt == ModTakeDamage(g.player, a.enemies[j].damage)
            IN IF touching = {} \/ g.player.invulnerable
               THEN [g EXCEPT !.bullets = a.bullets, !.enemies = a.enemies,
                              !.playingState.killCount = a.kills]
               ELSE [g EXCEPT !.bullets = a.bullets,
                              !.enemies = [a.enemies EXCEPT ![j].active = FALSE],
                              !.playingState.killCount = a.kills,
                              !.player = hurt.p])

\* GameStateMachine.setState with PlayingState.enter / GameOverState.enter
ModSetState(g, newState, data) ==
    IF g.stateMachine.currentState = newState THEN g
    ELSE With([g EXCEPT !.stateMachine = [currentState |-> newState,
                                          previousState |-> g.stateMachine.currentState]],
              LAMBDA t :
                 IF newState = "PLAYING"
                 THEN [t EXCEPT !.playingState.enemySpawnTimer = 0,
                                !.playingState.killCount =
                                    IF data.resetKillCount THEN 0 ELSE @]
                 ELSE [t EXCEPT !.gameOverState = [finalScore |-> data.finalScore,
                                                   killCount |-> data.killCount]])

\* getRandomEdgePosition(arenaWidth, arenaHeight, 50): a point of one edge
\* (0 top, 1 right, 2 bottom, 3 left), u of SpawnSteps along it
GetRandomEdgePosition(edge, u) ==
    LET margin == Pt(SPAWN_MARGIN)
        alongX == margin + TruncDiv(u * (CONFIG.arenaWidth - 2 * margin), SpawnSteps)
        alongY == margin + TruncDiv(u * (CONFIG.arenaHeight - 2 * margin), SpawnSteps)
    IN CASE edge = 0 -> [x |-> alongX, y |-> margin]
         [] edge = 1 -> [x |-> CONFIG.arenaWidth - margin, y |-> alongY]
         [] edge = 2 -> [x |-> alongX, y |-> CONFIG.arenaHeight - margin]
         [] edge = 3 -> [x |-> margin, y |-> alongY]

\* Enemy.spawn: positions are drawn until one is far enough from the player, ten
\* at most; rnd.first is the first draw, rnd.retry the ones after it
EnemySpawn(playerX, playerY, rnd) ==
    LET near == Dist2(rnd.first.x, rnd.first.y, playerX, playerY)
                   < CONFIG.enemy.minDistanceFromPlayer * CONFIG.enemy.minDistanceFromPlayer
        position == IF near THEN rnd.retry ELSE rnd.first
    IN NewModEnemy(position.x, position.y)

\* Game.update of game.js, with GameStateMachine.update's dispatch at its end,
\* and PlayingState.update, which calls Game.update again.  r = [game, passes,
\* threw, dropped]: passes counts the runs over the entities, threw is set when
\* the nesting has used up the call stack (RangeError) - limit is the number of
\* nested Game.update calls the host's stack holds; dropped holds the enemies
\* that cleanupEntities filtered out.
RECURSIVE GameUpdate(_, _, _, _, _, _)
RECURSIVE PlayingStateUpdate(_, _, _, _, _, _)
GameUpdate(r, dt, moveVector, rnd, depth, limit) ==
    IF r.game.isPaused THEN r
    ELSE IF depth > limit THEN [r EXCEPT !.threw = TRUE]
    ELSE LET isActive(e) == e.active
         IN
         With(ModPlayerUpdate(r.game.player, dt, moveVector), LAMBDA p :
         With([r.game EXCEPT
                  !.gameTime = @ + dt,
                  !.player = p,
                  !.enemies = SelectSeq([j \in 1..Len(@) |->
                                            ModEnemyUpdate(@[j], dt, p.x, p.y)], isActive),
                  !.bullets = SelectSeq([j \in 1..Len(@) |-> ModBulletUpdate(@[j], dt)],
                                        isActive)], LAMBDA g1 :
         With(ModHandleCollisions(g1), LAMBDA g2 :
         \* cleanupEntities
         With([g2 EXCEPT !.enemies = SelectSeq(@, isActive),
                         !.bullets = SelectSeq(@, isActive)], LAMBDA g3 :
         With(SelectSeq(g2.enemies, LAMBDA e : ~e.active), LAMBDA gone :
         \* stateMachine.update(dt, this)
         IF g3.stateMachine.currentState = "PLAYING"
         THEN PlayingStateUpdate([r EXCEPT !.game = g3, !.passes = @ + 1,
                                           !.dropped = @ \o gone],
                                 dt, moveVector, rnd, depth, limit)
         ELSE [r EXCEPT !.game = g3, !.passes = @ + 1, !.dropped = @ \o gone])))))

PlayingStateUpdate(r, dt, moveVector, rnd, depth, limit) ==
    LET g == r.game
        spawned == IF g.playingState.enemySpawnTimer + dt >= CONFIG.enemy.spawnInterval
                   THEN [g EXCEPT !.enemies = Append(@, EnemySpawn(g.player.x, g.player.y, rnd)),
                                  !.playingState.enemySpawnTimer = 0]
                   ELSE [g EXCEPT !.playingState.enemySpawnTimer = @ + dt]
    IN With(GameUpdate([r EXCEPT !.game = spawned], dt, moveVector, rnd, depth + 1, limit),
            LAMBDA u :
               IF u.threw THEN u
               ELSE IF u.game.player.health <= 0
               THEN [u EXCEPT !.game =
                        ModSetState(u.game, "GAME_OVER",
                                    [resetKillCount |-> TRUE,
                                     killCount |-> u.game.playingState.killCount,
                                     finalScore |-> u.game.playingState.killCount * 100])]
               ELSE u)

\* Game.reset of game.js, with Player.reset
GameReset(g) ==
    [g EXCEPT !.player = [@ EXCEPT !.x = CONFIG.player.startX, !.y = CONFIG.player.startY,
                                   !.health = g.player.maxHealth, !.active = TRUE,
                                   !.invulnerable = FALSE,
                                   !.invulnerabilityTimer.elapsed = 0,
                                   !.invulnerabilityTimer.isComplete = FALSE,
                                   !.flashTimer.elapsed = 0,
                                   !.flashTimer.isComplete = FALSE,
                                   !.isDamaged = FALSE,
                                   !.velocity = [x |-> 0, y |-> 0]],
              !.enemies = <<>>,
              !.bullets = <<>>,
              !.gameTime = 0,
              !.isPaused = FALSE]

\* new GameEngine() after initialize() and start(), with its new Game(...)
NewEngine ==
    [isRunning |-> TRUE, isPaused |-> FALSE,
     lastTime |-> StartClock, accumulator |-> 0,
     targetFrameTime |-> 60 \div CONFIG.performance.targetFPS,
     maxFrameTime |-> 60 \div CONFIG.performance.minFPS,
     scheduled |-> TRUE,   \* requestAnimationFrame holds a gameLoop callback
     game |-> [player |-> NewModPlayer(CONFIG.player.startX, CONFIG.player.startY),
               enemies |-> <<>>, bullets |-> <<>>, isPaused |-> FALSE, gameTime |-> 0,
               stateMachine |-> [currentState |-> "PLAYING", previousState |-> "none"],
               playingState |-> [enemySpawnTimer |-> 0, killCount |-> 0],
               gameOverState |-> [finalScore |-> 0, killCount |-> 0]]]

\* the observation of a Game.update call, before any; of a gameLoop iteration:
\* tried counts the fixed steps it began, fed is the deltaTime it added to the
\* accumulator; over the run: fedTotal is all the deltaTime added, awake the
\* time that passed while the engine was not paused
NoPasses ==
    [passes |-> 0, threw |-> FALSE, wasPlaying |-> FALSE, wasPaused |-> FALSE,
     dropped |-> <<>>, tried |-> 0, fed |-> 0, fedTotal |-> 0, awake |-> 0]

\* the observation of a call, with the totals of the run carried over
Observed(o, old) == [o EXCEPT !.fedTotal = old.fedTotal, !.awake = old.awake]

\* GameEngine.pause
EnginePause(en) ==
    IF ~en.isPaused THEN [en EXCEPT !.isPaused = TRUE, !.game.isPaused = TRUE] ELSE en

\* a resume that keeps the old timestamp
C32_KeepsLastTime(en, clock) ==
    IF en.isPaused
    THEN [en EXCEPT !.isPaused = FALSE, !.game.isPaused = FALSE]
    ELSE en

\* GameEngine.resume
EngineResume(en, clock) ==
    IF en.isPaused
    THEN [en EXCEPT !.isPaused = FALSE, !.game.isPaused = FALSE, !.lastTime = clock]
    ELSE en

\* Game.handleInput -> stateMachine.handleInput(inputManager, game).
\* PlayingState.handleInput calls inputManager.switchWeapon(), which on the
\* InputManager of input.js is a boolean field, and GameOverState.handleInput
\* calls inputManager.isKeyPressed(...), which the InputManager does not have:
\* both throw a TypeError before anything is changed.
GameHandleInput(g) ==
    [game |-> g, threw |-> g.stateMachine.currentState \in {"PLAYING", "GAME_OVER"}]

\* the fixed steps of a gameLoop iteration:
\*   while (accumulator >= targetFrameTime)
\*       { game.handleInput(); game.update(targetFrameTime); accumulator -= targetFrameTime }
\* r = [en |-> the engine, tried |-> steps begun, threw |-> an exception left the loop]
RECURSIVE FixedSteps(_, _, _, _)
FixedSteps(r, moveVector, rnd, limit) ==
    IF r.threw \/ r.en.accumulator < r.en.targetFrameTime THEN r
    ELSE With(GameHandleInput(r.en.game), LAMBDA h :
         IF h.threw THEN [r EXCEPT !.tried = @ + 1, !.threw = TRUE]
         ELSE With(GameUpdate([game |-> h.game, passes |-> 0, threw |-> FALSE,
                               dropped |-> <<>>],
                              r.en.targetFrameTime, moveVector, rnd, 1, limit), LAMBDA u :
              IF u.threw
              THEN [r EXCEPT !.en.game = u.game, !.tried = @ + 1, !.threw = TRUE]
              ELSE FixedSteps([r EXCEPT !.en.game = u.game,
                                        !.en.accumulator = @ - r.en.targetFrameTime,
                                        !.tried = @ + 1],
                              moveVector, rnd, limit)))

\* ------------------------------------------------------- the registry game
\* the Game object (with the observation the operators thread through)
GameRec ==
    [player |-> player, weapons |-> weapons, currentWeaponKey |-> currentWeaponKey,
     enemies |-> enemies, projectiles |-> projectiles, killCount |-> killCount,
     enemySpawnTimer |-> enemySpawnTimer, creatorMode |-> creatorMode,
     originalPistolFireRate |-> originalPistolFireRate, currentState |-> currentState,
     input |-> input, emitted |-> <<>>, deaths |-> deaths, nextId |-> nextId,
     tdOk |-> 0, maxHits |-> 0, lastResult |-> lastResult, fireLog |-> fireLog,
     obs |-> obs]

SetGame(g) ==
    /\ player' = g.player
    /\ weapons' = g.weapons
    /\ currentWeaponKey' = g.currentWeaponKey
    /\ enemies' = g.enemies
    /\ projectiles' = g.projectiles
    /\ killCount' = g.killCount
    /\ enemySpawnTimer' = g.enemySpawnTimer
    /\ creatorMode' = g.creatorMode
    /\ originalPistolFireRate' = g.originalPistolFireRate
    /\ currentState' = g.currentState
    /\ input' = g.input
    /\ emitted' = g.emitted
    /\ deaths' = g.deaths
    /\ nextId' = g.nextId
    /\ tdOk' = g.tdOk
    /\ maxHits' = g.maxHits
    /\ lastResult' = g.lastResult
    /\ fireLog' = g.fireLog
    /\ obs' = g.obs

NoFireLog == [last |-> -1, gap |-> -1, rate |-> 0, fired |-> 0]
FreshFireLog == [pistol |-> NoFireLog, machine_gun |-> NoFireLog]

\* new InputManager(); askedIn observes the game state in which the last
\* switch request was accepted ("": none yet)
NewInput ==
    [switchWeapon |-> FALSE, lastWeaponSwitchTime |-> 0,
     creatorMode |-> FALSE, lastCreatorModeToggleTime |-> 0, askedIn |-> ""]

CenterX == Pt(ARENA_WIDTH) \div 2
CenterY == Pt(ARENA_HEIGHT) \div 2

\* The states a session starts the exploration from: the state Game.init()
\* leaves, and states of play it leads to (enemies that have closed in, a player
\* already hit), each with the observation that goes with it.
\*   p: the player, es: the enemies, timer: enemySpawnTimer, since: sinceHit,
\*   frames: frames of the session already run, prs: the projectiles in flight,
\*   fired: time since the pistol's last shot (-1: none)
HeldShooter(id, x, y, fireTimer) ==
    [NewShooter(id, x, y) EXCEPT !.isMoving = FALSE, !.moveTimer = SHOOTER_MOVE_DURATION,
                                 !.fireTimer = fireTimer,
                                 !.centerX = CenterX, !.centerY = CenterY]
StartPlayer == [NewPlayer(CenterX, CenterY) EXCEPT !.weapon = "pistol"]
Scenes ==
    { \* as constructed
      [p |-> StartPlayer, es |-> <<>>, timer |-> 0, since |-> -1, frames |-> 0,
       prs |-> <<>>, fired |-> -1],
      \* an enemy is about to spawn, late in the session
      [p |-> StartPlayer, es |-> <<>>, timer |-> ENEMY_SPAWN_INTERVAL - 1, since |-> -1, frames |-> 1,
       prs |-> <<>>, fired |-> -1],
      \* two assassins side by side, closing in from the right
      [p |-> StartPlayer,
       es |-> <<NewAssassin(1, CenterX + 200, CenterY), NewAssassin(2, CenterX + 210, CenterY)>>,
       timer |-> 6, since |-> -1, frames |-> 0,
       prs |-> <<>>, fired |-> -1],
      \* one assassin a little further away
      [p |-> StartPlayer, es |-> <<NewAssassin(1, CenterX + 270, CenterY)>>,
       timer |-> 6, since |-> -1, frames |-> 0,
       prs |-> <<>>, fired |-> -1],
      \* a player on the last hit point, a tank about to touch, an assassin behind it
      [p |-> [StartPlayer EXCEPT !.hp = 1],
       es |-> <<NewTank(1, CenterX + 250, CenterY), NewAssassin(2, CenterX + 330, CenterY)>>,
       timer |-> 6, since |-> PLAYER_IFRAME_DURATION, frames |-> 0,
       prs |-> <<>>, fired |-> -1],
      \* a player hit 44 ticks ago with the assassin still on top
      [p |-> [StartPlayer EXCEPT !.hp = 2, !.iframeTimer = 4],
       es |-> <<NewAssassin(1, CenterX + 100, CenterY)>>,
       timer |-> 6, since |-> PLAYER_IFRAME_DURATION - 4, frames |-> 0,
       prs |-> <<>>, fired |-> -1],
      \* a shooter holding its position above the player, about to fire
      [p |-> [StartPlayer EXCEPT !.y = Pt(190) + 250],
       es |-> <<HeldShooter(1, CenterX, Pt(190), SHOOTER_FIRE_RATE - 2)>>,
       timer |-> 6, since |-> -1, frames |-> 0,
       prs |-> <<>>, fired |-> -1],
      \* a player on the last hit point at the right edge, a tank about to touch
      \* from the left, a shooter and an assassin behind it, a spawn due
      [p |-> [StartPlayer EXCEPT !.hp = 1, !.x = Pt(ARENA_WIDTH) - Pt(PLAYER_RADIUS)],
       es |-> <<NewTank(1, Pt(ARENA_WIDTH) - Pt(PLAYER_RADIUS) - 250, CenterY),
                HeldShooter(2, CenterX, CenterY, SHOOTER_FIRE_RATE - 2),
                NewAssassin(3, CenterX + 200, CenterY)>>,
       timer |-> ENEMY_SPAWN_INTERVAL - 1, since |-> PLAYER_IFRAME_DURATION, frames |-> 1,
       prs |-> <<>>, fired |-> -1],
      \* a player in full health at the centre, a tank closing in from the right
      [p |-> StartPlayer, es |-> <<NewTank(1, CenterX + 270, CenterY)>>,
       timer |-> 6, since |-> -1, frames |-> 0,
       prs |-> <<>>, fired |-> -1],
      \* a shooter holding its position near the left edge; the bullet it fired
      \* 2.4 s ago is about to reach its lifetime near the right edge, its second
      \* bullet is on its way to the player; a pistol bullet the player fired to
      \* the right is about to leave the arena
      [p |-> StartPlayer,
       es |-> <<HeldShooter(1, Pt(252), CenterY, 24)>>,
       timer |-> 6, since |-> -1, frames |-> 0,
       prs |-> <<[NewProjectile(Pt(252) + 38 * (SHOOTER_BULLET_LIFETIME - 4),
                                CenterY + 12 * (SHOOTER_BULLET_LIFETIME - 4),
                                38, 12, Pt(SHOOTER_BULLET_RADIUS), 1, "shooter",
                                SHOOTER_BULLET_LIFETIME)
                     EXCEPT !.age = SHOOTER_BULLET_LIFETIME - 4],
                 [NewProjectile(Pt(252) + Vel(SHOOTER_BULLET_SPEED) * 26, CenterY,
                                Vel(SHOOTER_BULLET_SPEED), 0, Pt(SHOOTER_BULLET_RADIUS),
                                1, "shooter", SHOOTER_BULLET_LIFETIME)
                     EXCEPT !.age = 26],
                 [NewProjectile(CenterX + Vel(BULLET_SPEED) * 58, CenterY,
                                Vel(BULLET_SPEED), 0, Pt(BULLET_RADIUS), 1, "player",
                                PROJECTILE_LIFETIME)
                     EXCEPT !.age = 58]>>,
       fired |-> 58],
      \* the same shooter; the player, hit by a tank 44 ticks ago, has run to the
      \* right edge and stands where the shooter's first bullet is about to
      \* reach its lifetime
      [p |-> [StartPlayer EXCEPT !.hp = 2, !.iframeTimer = 4,
                                 !.x = Pt(ARENA_WIDTH) - Pt(PLAYER_RADIUS),
                                 !.y = CenterY + 12 * SHOOTER_BULLET_LIFETIME],
       es |-> <<HeldShooter(1, Pt(252), CenterY, 24),
                [NewTank(2, Pt(ARENA_WIDTH) - Pt(PLAYER_RADIUS) - 740,
                         CenterY + 12 * SHOOTER_BULLET_LIFETIME)
                    EXCEPT !.contactCooldown = TANK_CONTACT_COOLDOWN - 44,
                           !.flashTimer = -44, !.vx = Vel(TANK_SPEED)]>>,
       timer |-> 6, since |-> PLAYER_IFRAME_DURATION - 4, frames |-> 0,
       prs |-> <<[NewProjectile(Pt(252) + 38 * (SHOOTER_BULLET_LIFETIME - 4),
                                CenterY + 12 * (SHOOTER_BULLET_LIFETIME - 4),
                                38, 12, Pt(SHOOTER_BULLET_RADIUS), 1, "shooter",
                                SHOOTER_BULLET_LIFETIME)
                     EXCEPT !.age = SHOOTER_BULLET_LIFETIME - 4],
                 [NewProjectile(Pt(252) + 37 * 26, CenterY + 13 * 26, 37, 13,
                                Pt(SHOOTER_BULLET_RADIUS), 1, "shooter",
                                SHOOTER_BULLET_LIFETIME)
                     EXCEPT !.age = 26]>>,
       fired |-> -1],
      \* a shooter that came in from the left edge 1.93 s ago, still on its way
      \* to the centre; the player stands below the centre
      [p |-> [StartPlayer EXCEPT !.y = CenterY + 600],
       es |-> <<[NewShooter(1, Pt(SHOOTER_RADIUS) + 57 * 2 * Vel(SHOOTER_SPEED), CenterY)
                    EXCEPT !.moveTimer = SHOOTER_MOVE_DURATION - 4,
                           !.fireTimer = SHOOTER_FIRE_RATE - 4,
                           !.vx = Vel(SHOOTER_SPEED),
                           !.centerX = CenterX, !.centerY = CenterY]>>,
       timer |-> 6, since |-> -1, frames |-> 0,
       prs |-> <<>>, fired |-> -1],
      \* a player who has just switched to the machine gun, the switch cooldown
      \* still running; an assassin closing in
      [p |-> [StartPlayer EXCEPT !.weapon = "machine_gun"],
       es |-> <<NewAssassin(1, CenterX + 270, CenterY)>>,
       timer |-> 6, since |-> -1, frames |-> 0,
       prs |-> <<>>, fired |-> -1],
      \* an assassin that came from the right and has just reached the very
      \* position of the player
      [p |-> StartPlayer,
       es |-> <<[NewAssassin(1, CenterX, CenterY) EXCEPT !.vx = -Vel(ASSASSIN_SPEED)]>>,
       timer |-> 6, since |-> -1, frames |-> 0,
       prs |-> <<>>, fired |-> -1] }

InitGame ==
    \E sc \in Scenes :
        /\ player = sc.p
        /\ weapons = [pistol |-> IF sc.fired = -1 THEN NewPistol
                                  ELSE [NewPistol EXCEPT !.lastFireTime = StartClock - sc.fired],
                      machine_gun |-> NewMachineGun]
        /\ currentWeaponKey = sc.p.weapon
        /\ enemies = sc.es
        /\ projectiles = sc.prs
        /\ killCount = 0
        /\ enemySpawnTimer = sc.timer
        /\ creatorMode = FALSE
        /\ originalPistolFireRate = 0
        /\ currentState = "playing"
        /\ input = IF sc.p.weapon = "pistol" THEN NewInput
                   ELSE [NewInput EXCEPT !.lastWeaponSwitchTime =
                                             StartClock - (WEAPON_SWITCH_COOLDOWN - 4)]
        /\ now = StartClock
        /\ emitted = <<>>
        /\ lastOp = "init"
        /\ lastDt = 0
        /\ lastResult = FALSE
        /\ deaths = {}
        /\ nextId = Len(sc.es) + 1
        /\ tdOk = 0
        /\ maxHits = 0
        /\ sinceHit = sc.since
        /\ ticks = sc.frames
        /\ keys = 0
        /\ fireLog = IF sc.fired = -1 THEN FreshFireLog
                     ELSE [FreshFireLog EXCEPT !.pistol = [last |-> StartClock - sc.fired,
                                                           gap |-> -1,
                                                           rate |-> PISTOL_FIRE_RATE,
                                                           fired |-> 1]]
        /\ obs = StartObs(sc.timer)
        /\ gameState = InitialGameState
        /\ inputManager = NewInputManager
        /\ isRunning = TRUE
        /\ pending = 1
        /\ frameSteps = 0
        /\ engine = NewEngine
        /\ engineObs = NoPasses
        /\ IdleUtil

\* what the input provider reports in a frame
MoveInputs == {[x |-> 0, y |-> 0], [x |-> 10000, y |-> 0]}
MousePoints == {[x |-> CenterX + Pt(100), y |-> CenterY], [x |-> CenterX, y |-> CenterY]}
FrameInputs ==
    {[move |-> m, fire |-> FALSE, mouse |-> [x |-> 0, y |-> 0]] : m \in MoveInputs}
    \cup {[move |-> m, fire |-> TRUE, mouse |-> q] : m \in MoveInputs, q \in MousePoints}

\* real time between two animation frames
FrameDeltas == {2, SlowFrame}

EnemyTypes == {"assassin", "shooter", "tank"}
SpreadDraws == {0, 7}
\* the random draws a frame can consume: a spawn's are drawn only in a frame that
\* spawns, a spread only when a shooter fires
RandomDraws(deltaTime) ==
    LET spawns == currentState = "playing"
                  /\ enemySpawnTimer + deltaTime >= ENEMY_SPAWN_INTERVAL
        shoots == currentState = "playing"
                  /\ \E i \in 1..Len(enemies) :
                        /\ enemies[i].kind = "shooter"
                        /\ enemies[i].fireTimer + deltaTime >= SHOOTER_FIRE_RATE
    IN {[enemyType |-> t, edge |-> e, u1 |-> a, u2 |-> b, spread |-> sp] :
           t \in IF spawns THEN EnemyTypes ELSE {"assassin"},
           e \in IF spawns THEN 0..3 ELSE {0},
           a \in IF spawns THEN 0..(SpawnSteps - 1) ELSE {0},
           b \in IF spawns THEN 0..(SpawnSteps - 1) ELSE {0},
           sp \in IF shoots THEN SpreadDraws ELSE {0}}

\* Game.gameLoop: one animation frame, deltaTime capped, then update
Frame ==
    /\ ticks < MaxTicks
    /\ \E real \in FrameDeltas, inp \in FrameInputs :
         \E rnd \in RandomDraws(Min(real, MAX_FRAME_DT)) :
           \E g \in {Update(GameRec, Min(real, MAX_FRAME_DT), now + real, inp, rnd)} :
              /\ SetGame(g)
              /\ now' = now + real
              /\ lastOp' = "update"
              /\ lastDt' = Min(real, MAX_FRAME_DT)
              /\ sinceHit' = IF g.tdOk > 0 THEN 0
                             ELSE IF sinceHit = -1 \/ currentState # "playing"
                                  THEN sinceHit
                                  ELSE Min(sinceHit + Min(real, MAX_FRAME_DT),
                                           PLAYER_IFRAME_DURATION)
              /\ ticks' = ticks + 1
              /\ UNCHANGED <<keys, monoVars, loopVars, engineVars, utilVars>>

\* Game.restart (restart button, Enter on the game-over screen)
Restart ==
    /\ \E g \in {RestartGame(GameRec)} :
          SetGame([g EXCEPT !.deaths = {}, !.fireLog = FreshFireLog])
    /\ lastOp' = "restart"
    /\ sinceHit' = -1
    /\ UNCHANGED <<now, lastDt, ticks, keys, monoVars, loopVars, engineVars, utilVars>>

\* InputManager.canSwitchWeapon / canToggleCreatorMode
CanSwitchWeapon(inp, clock) == clock - inp.lastWeaponSwitchTime >= WEAPON_SWITCH_COOLDOWN
CanToggleCreatorMode(inp, clock) ==
    clock - inp.lastCreatorModeToggleTime >= CREATOR_TOGGLE_COOLDOWN

\* a handleKeyDown that takes a switch request whatever the cooldown
C30_NoCooldown(inp, action, clock) ==
    CASE action = "switchWeapon" ->
            IF ~inp.switchWeapon
            THEN [inp EXCEPT !.switchWeapon = TRUE] ELSE inp
      [] action = "creatorMode" ->
            IF ~inp.creatorMode /\ CanToggleCreatorMode(inp, clock)
            THEN [inp EXCEPT !.creatorMode = TRUE] ELSE inp
      [] OTHER -> inp

\* KeyboardMouseProvider.handleKeyDown
HandleKeyDown(inp, action, clock) ==
    CASE action = "switchWeapon" ->
            IF ~inp.switchWeapon /\ CanSwitchWeapon(inp, clock)
            THEN [inp EXCEPT !.switchWeapon = TRUE] ELSE inp
      [] action = "creatorMode" ->
            IF ~inp.creatorMode /\ CanToggleCreatorMode(inp, clock)
            THEN [inp EXCEPT !.creatorMode = TRUE] ELSE inp
      [] OTHER -> inp

KeyDown ==
    /\ keys < MaxKeys
    /\ keys' = keys + 1
    /\ \E action \in {"switchWeapon", "creatorMode"} :
          \E inp \in {HandleKeyDown(input, action, now)} :
              input' = IF inp.switchWeapon /\ ~input.switchWeapon
                       THEN [inp EXCEPT !.askedIn = currentState] ELSE inp
    /\ lastOp' = "keydown"
    /\ emitted' = <<>>
    /\ UNCHANGED <<player, weapons, currentWeaponKey, enemies, projectiles, killCount,
                   enemySpawnTimer, creatorMode, originalPistolFireRate, currentState,
                   now, lastDt, lastResult, deaths, nextId, tdOk, maxHits, sinceHit,
                   ticks, fireLog, obs, monoVars, loopVars, engineVars, utilVars>>

Next == Frame \/ Restart \/ KeyDown

Spec == InitGame /\ [][Next]_vars

\* the registry game with the browser delivering animation frames for as long
\* as the loop asks for them (requestAnimationFrame at the end of gameLoop).
\* Frame is the only action of Next that counts a frame, so a step of
\* Frame is named by its effect on the counter.
FairSpec == Spec /\ WF_ticks(ticks < MaxTicks /\ ticks' = ticks + 1)

\* ------------------------------------------- the frame loop of the registry
\* most gameLoop callbacks the exploration lets requestAnimationFrame hold
MaxPending == 3

\* the input of a frame without key or mouse activity, and draws nothing uses
IdleInput == [move |-> [x |-> 0, y |-> 0], fire |-> FALSE, mouse |-> [x |-> 0, y |-> 0]]
NoDraws == [enemyType |-> "assassin", edge |-> 0, u1 |-> 0, u2 |-> 0, spread |-> 0]

\* the gameLoop callbacks of one display frame, run one after the other while
\* isRunning: the first sees the real time since the last frame, the others
\* find lastTime already moved up to the clock.
\* acc = [g |-> the game, n |-> takeDamage calls that returned true]
RECURSIVE RunCallbacks(_, _, _, _, _)
RunCallbacks(acc, k, deltaTime, clock, rnd) ==
    IF k = 0 THEN acc
    ELSE With(Update([acc.g EXCEPT !.tdOk = 0], deltaTime, clock, IdleInput, rnd),
              LAMBDA g : RunCallbacks([g |-> g, n |-> acc.n + g.tdOk], k - 1, 0, clock, NoDraws))

\* Game.start: sets isRunning and calls gameLoop, which runs an update with no
\* time elapsed and asks for the next animation frame
GameStart ==
    /\ ~isRunning
    /\ pending < MaxPending
    /\ isRunning' = TRUE
    /\ \E g \in {Update(GameRec, 0, now, IdleInput, NoDraws)} : SetGame(g)
    /\ pending' = pending + 1
    /\ lastOp' = "start"
    /\ lastDt' = 0
    /\ UNCHANGED <<now, sinceHit, ticks, keys, frameSteps, monoVars, engineVars, utilVars>>

\* Game.stop
GameStop ==
    /\ isRunning' = FALSE
    /\ lastOp' = "stop"
    /\ UNCHANGED <<gameVars, now, emitted, lastDt, lastResult, deaths, nextId, tdOk, maxHits,
                   sinceHit, ticks, keys, fireLog, obs, monoVars, pending, frameSteps,
                   engineVars, utilVars>>

\* a display frame: the browser runs every callback requestAnimationFrame holds;
\* each is Game.gameLoop, which returns at once when not running and otherwise
\* updates, renders and asks for the next frame
DisplayFrame ==
    /\ ticks < MaxTicks
    /\ pending > 0
    /\ \E real \in FrameDeltas :
         \E rnd \in RandomDraws(Min(real, MAX_FRAME_DT)) :
           \E r \in {RunCallbacks([g |-> GameRec, n |-> 0], IF isRunning THEN pending ELSE 0,
                                  Min(real, MAX_FRAME_DT), now + real, rnd)} :
              /\ SetGame(r.g)
              /\ now' = now + real
              /\ lastDt' = Min(real, MAX_FRAME_DT)
              /\ sinceHit' = IF r.n > 0 THEN 0
                             ELSE IF sinceHit = -1 \/ currentState # "playing" \/ ~isRunning
                                  THEN sinceHit
                                  ELSE Min(sinceHit + Min(real, MAX_FRAME_DT),
                                           PLAYER_IFRAME_DURATION)
    /\ pending' = IF isRunning THEN pending ELSE 0
    /\ frameSteps' = IF isRunning THEN pending ELSE 0
    /\ lastOp' = "frame"
    /\ ticks' = ticks + 1
    /\ UNCHANGED <<isRunning, keys, monoVars, engineVars, utilVars>>

LoopNext == GameStart \/ GameStop \/ DisplayFrame

LoopSpec == InitGame /\ [][LoopNext]_vars

\* ------------------------------------------------------ a weapon on its own
\* The two weapons of a game driven call by call: fire and canFire at chosen
\* clock times, the creator mode toggled in between.
\* A machine gun with left rounds, its earlier rounds fired before the session.
UsedMachineGun(left) ==
    IF left = MACHINE_GUN_AMMO THEN NewMachineGun
    ELSE [NewMachineGun EXCEPT !.currentAmmo = left,
                               !.lastFireTime = StartClock - MACHINE_GUN_FIRE_RATE]
UsedFireLog(left) ==
    IF left = MACHINE_GUN_AMMO THEN NoFireLog
    ELSE [last |-> StartClock - MACHINE_GUN_FIRE_RATE, gap |-> MACHINE_GUN_FIRE_RATE,
          rate |-> MACHINE_GUN_FIRE_RATE, fired |-> MACHINE_GUN_AMMO - left]

InitWeapon ==
    \E left \in {MACHINE_GUN_AMMO, LowAmmo, 0} :
        /\ player = StartPlayer
        /\ weapons = [pistol |-> NewPistol, machine_gun |-> UsedMachineGun(left)]
        /\ currentWeaponKey = "pistol"
        /\ enemies = <<>>
        /\ projectiles = <<>>
        /\ killCount = 0
        /\ enemySpawnTimer = 0
        /\ creatorMode = FALSE
        /\ originalPistolFireRate = 0
        /\ currentState = "playing"
        /\ input = NewInput
        /\ now = StartClock
        /\ emitted = <<>>
        /\ lastOp = "init"
        /\ lastDt = 0
        /\ lastResult = FALSE
        /\ deaths = {}
        /\ nextId = 1
        /\ tdOk = 0
        /\ maxHits = 0
        /\ sinceHit = -1
        /\ ticks = 0
        /\ keys = 0
        /\ fireLog = [pistol |-> NoFireLog, machine_gun |-> UsedFireLog(left)]
        /\ obs = StartObs(-1)
        /\ isRunning = FALSE
        /\ pending = 0
        /\ frameSteps = 0
        /\ engine = NewEngine
        /\ engineObs = NoPasses
        /\ IdleUtil
        /\ gameState = InitialGameState
        /\ inputManager = NewInputManager

WeaponKeys == {"pistol", "machine_gun"}

\* weapon.fire(fromX, fromY, targetX, targetY, projectiles) at the current clock
FireWeapon ==
    /\ Len(projectiles) < MaxShots
    /\ \E k \in WeaponKeys, q \in MousePoints :
         \E g \in {PlayerFire([GameRec EXCEPT !.player.weapon = k], now, q.x, q.y)} :
            /\ weapons' = g.weapons
            /\ projectiles' = g.projectiles
            /\ lastResult' = g.lastResult
            /\ fireLog' = g.fireLog
            /\ lastOp' = IF k = "pistol" THEN "firePistol" ELSE "fireMachineGun"
    /\ UNCHANGED <<player, currentWeaponKey, enemies, killCount, enemySpawnTimer,
                   creatorMode, originalPistolFireRate, currentState, input, now, emitted,
                   lastDt, deaths, nextId, tdOk, maxHits, sinceHit, ticks, keys, obs, monoVars,
                   loopVars, engineVars, utilVars>>

\* weapon.canFire()
QueryCanFire ==
    /\ \E k \in WeaponKeys : lastResult' = CanFire(weapons[k], now)
    /\ lastOp' = "canFire"
    /\ UNCHANGED <<player, weapons, currentWeaponKey, enemies, projectiles, killCount,
                   enemySpawnTimer, creatorMode, originalPistolFireRate, currentState,
                   input, now, emitted, lastDt, deaths, nextId, tdOk, maxHits, sinceHit,
                   ticks, keys, fireLog, obs, monoVars, loopVars, engineVars, utilVars>>

\* the clock moves on
ClockDeltas == {PISTOL_FIRE_RATE \div CREATOR_RATE_DIVISOR, MACHINE_GUN_FIRE_RATE}
Advance ==
    /\ \E d \in ClockDeltas :
          /\ now + d <= StartClock + MaxClock
          /\ now' = now + d
    /\ lastOp' = "advance"
    /\ UNCHANGED <<player, weapons, currentWeaponKey, enemies, projectiles, killCount,
                   enemySpawnTimer, creatorMode, originalPistolFireRate, currentState,
                   input, emitted, lastDt, lastResult, deaths, nextId, tdOk, maxHits,
                   sinceHit, ticks, keys, fireLog, obs, monoVars, loopVars, engineVars, utilVars>>

\* Game.toggleCreatorMode changes the pistol's fireRate
CreatorToggle ==
    /\ keys < MaxKeys
    /\ keys' = keys + 1
    /\ \E g \in {ToggleCreatorMode(GameRec)} :
          /\ weapons' = g.weapons
          /\ creatorMode' = g.creatorMode
          /\ originalPistolFireRate' = g.originalPistolFireRate
    /\ lastOp' = "creator"
    /\ UNCHANGED <<player, currentWeaponKey, enemies, projectiles, killCount,
                   enemySpawnTimer, currentState, input, now, emitted, lastDt, lastResult,
                   deaths, nextId, tdOk, maxHits, sinceHit, ticks, fireLog, obs, monoVars,
                   loopVars, engineVars, utilVars>>

WeaponNext == FireWeapon \/ QueryCanFire \/ Advance \/ CreatorToggle

WeaponSpec == InitWeapon /\ [][WeaponNext]_vars

\* ------------------------------------------------ the monolithic game's runs
MonoRec == [gs |-> gameState, im |-> inputManager]

\* a shooter that began to telegraph a while ago
Telegraphing(x, y, timer) ==
    [MonoEnemy("shooter", x, y) EXCEPT !.telegraphing = TRUE, !.telegraphTimer = timer,
                                       !.lastFireTime = StartClock - fireInterval - telegraphTime]

\* The states a monolithic session is explored from: the state initGame leaves,
\* and states of play it leads to.
MonoScenes ==
    { [gs |-> InitialGameState, im |-> NewInputManager],
      \* the player on the last hit point below a shooter at the top edge, a second
      \* shooter at the left edge, both about to fire
      [im |-> NewInputManager, gs |->
       [InitialGameState EXCEPT
          !.player = [MonoPlayer(Pt(canvasWidth) \div 2, 200) EXCEPT
                          !.health = 1, !.lastFireTime = StartClock - pistolFireRate],
          !.enemies = <<Telegraphing(Pt(canvasWidth) \div 2, 0, 2),
                        Telegraphing(0, Pt(canvasHeight) \div 2, 2)>>,
          !.lastEnemySpawnTime = StartClock - 10]],
      \* an assassin and a tank closing in from the right, the mouse button held
      [im |-> [NewInputManager EXCEPT !.fire = TRUE,
                   !.mousePosition = [x |-> CenterX + Pt(100), y |-> CenterY]],
       gs |->
       [InitialGameState EXCEPT
          !.enemies = <<MonoEnemy("assassin", Pt(canvasWidth) \div 2 + 250, Pt(canvasHeight) \div 2),
                        MonoEnemy("tank", Pt(canvasWidth) \div 2 + 400, Pt(canvasHeight) \div 2)>>,
          !.score = 1,
          !.lastEnemySpawnTime = StartClock - 10]],
      \* two assassins that reached the player from both sides
      [im |-> NewInputManager, gs |->
       [InitialGameState EXCEPT
          !.enemies = <<MonoEnemy("assassin", Pt(canvasWidth) \div 2 + 100, Pt(canvasHeight) \div 2),
                        MonoEnemy("assassin", Pt(canvasWidth) \div 2 - 100, Pt(canvasHeight) \div 2)>>,
          !.lastEnemySpawnTime = StartClock - 10]] }

InitMono ==
    /\ \E sc \in MonoScenes :
          /\ gameState = sc.gs
          /\ inputManager = sc.im
    /\ now = StartClock
    /\ lastOp = "init"
    /\ lastDt = 0
    /\ ticks = 0
    /\ player = StartPlayer
    /\ weapons = [pistol |-> NewPistol, machine_gun |-> NewMachineGun]
    /\ currentWeaponKey = "pistol"
    /\ enemies = <<>>
    /\ projectiles = <<>>
    /\ killCount = 0
    /\ enemySpawnTimer = 0
    /\ creatorMode = FALSE
    /\ originalPistolFireRate = 0
    /\ currentState = "playing"
    /\ input = NewInput
    /\ emitted = <<>>
    /\ lastResult = FALSE
    /\ deaths = {}
    /\ nextId = 1
    /\ tdOk = 0
    /\ maxHits = 0
    /\ sinceHit = -1
    /\ keys = 0
    /\ fireLog = FreshFireLog
    /\ obs = StartObs(-1)
    /\ isRunning = FALSE
    /\ pending = 0
    /\ frameSteps = 0
    /\ engine = NewEngine
    /\ engineObs = NoPasses
    /\ IdleUtil

gameObs == <<emitted, lastResult, deaths, nextId, tdOk, maxHits, sinceHit, fireLog, obs,
             loopVars, engineVars, utilVars>>

\* real time between two animation frames; src/main.js uses it uncapped
MonoDeltas == {2, SlowFrame}

MonoDraws(dt) ==
    LET spawns == gameState.currentState = "PLAYING"
                  /\ now + dt - gameState.lastEnemySpawnTime >= enemySpawnInterval
        shoots == gameState.currentState = "PLAYING"
                  /\ \E i \in 1..Len(gameState.enemies) :
                        /\ gameState.enemies[i].telegraphing
                        /\ gameState.enemies[i].telegraphTimer - dt <= 0
    IN {[enemyType |-> t, edge |-> e, u1 |-> a, spread |-> sp] :
           t \in IF spawns THEN EnemyTypes ELSE {"assassin"},
           e \in IF spawns THEN 0..3 ELSE {0},
           a \in IF spawns THEN 0..(SpawnSteps - 1) ELSE {0},
           sp \in IF shoots THEN SpreadDraws ELSE {0}}

\* gameLoop of src/main.js: dt from the timestamps, update(dt)
MonoFrame ==
    /\ ticks < MaxTicks
    /\ \E dt \in MonoDeltas :
         \E rnd \in MonoDraws(dt) :
            \E m \in {MonoUpdate(MonoRec, dt, now + dt, rnd)} :
               /\ gameState' = m.gs
               /\ inputManager' = m.im
               /\ now' = now + dt
               /\ lastDt' = dt
    /\ lastOp' = "monoUpdate"
    /\ ticks' = ticks + 1
    /\ UNCHANGED <<gameVars, gameObs, keys>>

MonoEvents ==
    {"keydown d", "keyup d", "keydown r", "keyup r", "mousedown", "mouseup", "keydown Enter"}

\* a key or mouse-button event reaches the InputManager
MonoEvent ==
    /\ keys < MaxKeys
    /\ keys' = keys + 1
    /\ \E event \in MonoEvents :
         \E m \in {MonoHandleEvent(MonoRec, event, now)} :
            /\ gameState' = m.gs
            /\ inputManager' = m.im
            /\ lastOp' = IF event = "keydown Enter" /\ gameState.currentState = "GAME_OVER"
                         THEN "restartGame" ELSE "event"
    /\ UNCHANGED <<gameVars, gameObs, now, lastDt, ticks>>

\* the mousemove listener
MonoMouseMove ==
    /\ keys < MaxKeys
    /\ keys' = keys + 1
    /\ \E q \in MousePoints : inputManager' = [inputManager EXCEPT !.mousePosition = q]
    /\ lastOp' = "event"
    /\ UNCHANGED <<gameVars, gameObs, now, lastDt, ticks, gameState>>

\* the restart button's click listener
MonoRestartClick ==
    /\ \E m \in {MonoRestartGame(MonoRec, now)} :
          /\ gameState' = m.gs
          /\ inputManager' = m.im
    /\ lastOp' = "restartGame"
    /\ UNCHANGED <<gameVars, gameObs, now, lastDt, ticks, keys>>

MonoNext == MonoFrame \/ MonoEvent \/ MonoMouseMove \/ MonoRestartClick

MonoSpec == InitMono /\ [][MonoNext]_vars

\* --------------------------------------------------- the modular game's runs
\* The states the exploration starts from: the engine as started, states of
\* play (an enemy on top of a player with one health left, a bullet about to
\* hit an enemy, a spawn due), a paused engine, and the state
\* setState(GAME_OVER) of gameState.js leaves when the player's health is gone.
EngineScenes ==
    LET cx == CONFIG.player.startX
        cy == CONFIG.player.startY
        lastHealth == [NewModPlayer(cx, cy) EXCEPT !.health = 1]
        dead == [NewModPlayer(cx, cy) EXCEPT !.health = 0, !.active = FALSE,
                                            !.invulnerable = TRUE, !.isDamaged = TRUE]
    IN { NewEngine,
         [NewEngine EXCEPT !.game.enemies = <<NewModEnemy(cx + 150, cy)>>,
                           !.game.player = lastHealth,
                           !.game.playingState = [enemySpawnTimer |-> 30, killCount |-> 2]],
         [NewEngine EXCEPT !.game.enemies = <<NewModEnemy(cx + 400, cy)>>,
                           !.game.bullets = <<NewModBullet(cx + 250, cy, 10000, 0)>>,
                           !.game.playingState =
                               [enemySpawnTimer |-> CONFIG.enemy.spawnInterval - 1,
                                killCount |-> 0]],
         [NewEngine EXCEPT !.isPaused = TRUE, !.game.isPaused = TRUE,
                           !.game.enemies = <<NewModEnemy(cx + 400, cy)>>],
         [NewEngine EXCEPT !.game.player = dead,
                           !.game.enemies = <<NewModEnemy(cx + 400, cy)>>,
                           !.game.stateMachine = [currentState |-> "GAME_OVER",
                                                  previousState |-> "PLAYING"],
                           !.game.playingState = [enemySpawnTimer |-> 30, killCount |-> 2],
                           !.game.gameOverState = [finalScore |-> 200, killCount |-> 2]] }

InitEngine ==
    /\ engine \in EngineScenes
    /\ engineObs = NoPasses
    /\ IdleUtil
    /\ gameState = InitialGameState
    /\ inputManager = NewInputManager
    /\ now = StartClock
    /\ lastOp = "init"
    /\ lastDt = 0
    /\ ticks = 0
    /\ player = StartPlayer
    /\ weapons = [pistol |-> NewPistol, machine_gun |-> NewMachineGun]
    /\ currentWeaponKey = "pistol"
    /\ enemies = <<>>
    /\ projectiles = <<>>
    /\ killCount = 0
    /\ enemySpawnTimer = 0
    /\ creatorMode = FALSE
    /\ originalPistolFireRate = 0
    /\ currentState = "playing"
    /\ input = NewInput
    /\ emitted = <<>>
    /\ lastResult = FALSE
    /\ deaths = {}
    /\ nextId = 1
    /\ tdOk = 0
    /\ maxHits = 0
    /\ sinceHit = -1
    /\ keys = 0
    /\ fireLog = FreshFireLog
    /\ obs = StartObs(-1)
    /\ isRunning = FALSE
    /\ pending = 0
    /\ frameSteps = 0

\* a call of Game.update(targetFrameTime), as GameEngine.gameLoop makes for each
\* fixed step
GameUpdateCall ==
    /\ ticks < MaxTicks
    /\ \E moveVector \in {[x |-> 0, y |-> 0], [x |-> 1, y |-> 0], [x |-> -1, y |-> 0]},
          limit \in 2..StackLimit,
          e1 \in {0, 1}, e2 \in {2, 3}, u \in 0..(SpawnSteps - 1) :
         \E r \in {GameUpdate([game |-> engine.game, passes |-> 0, threw |-> FALSE,
                               dropped |-> <<>>],
                              engine.targetFrameTime, moveVector,
                              [first |-> GetRandomEdgePosition(e1, u),
                               retry |-> GetRandomEdgePosition(e2, u)], 1, limit)} :
            /\ engine' = [engine EXCEPT !.game = r.game]
            /\ engineObs' = Observed(
                   [NoPasses EXCEPT
                       !.passes = r.passes, !.threw = r.threw, !.dropped = r.dropped,
                       !.wasPlaying = engine.game.stateMachine.currentState = "PLAYING",
                       !.wasPaused = engine.game.isPaused], engineObs)
    /\ lastOp' = "gameUpdate"
    /\ ticks' = ticks + 1
    /\ UNCHANGED <<gameVars, emitted, lastResult, deaths, nextId, tdOk, maxHits, sinceHit,
                   fireLog, obs, now, lastDt, keys, monoVars, loopVars, utilVars>>

\* GameEngine.restart (the restart button): game.reset(), then resume()
EngineRestart ==
    /\ engine' = EngineResume([engine EXCEPT !.game = GameReset(@)], now)
    /\ engineObs' = Observed(NoPasses, engineObs)
    /\ lastOp' = "engineRestart"
    /\ UNCHANGED <<gameVars, emitted, lastResult, deaths, nextId, tdOk, maxHits, sinceHit,
                   fireLog, obs, now, lastDt, ticks, keys, monoVars, loopVars, utilVars>>

\* the visibilitychange listener: GameEngine.pause() when the page is hidden,
\* GameEngine.resume() when it is shown
EngineVisibilityChange ==
    /\ \E hidden \in BOOLEAN :
          engine' = IF hidden THEN EnginePause(engine) ELSE EngineResume(engine, now)
    /\ engineObs' = Observed(NoPasses, engineObs)
    /\ lastOp' = "visibility"
    /\ UNCHANGED <<gameVars, emitted, lastResult, deaths, nextId, tdOk, maxHits, sinceHit,
                   fireLog, obs, now, lastDt, ticks, keys, monoVars, loopVars, utilVars>>

EngineNext == GameUpdateCall \/ EngineRestart \/ EngineVisibilityChange

EngineSpec == InitEngine /\ [][EngineNext]_vars

\* ---------------------------------------------- GameEngine.gameLoop and time
\* the time that passes between two events: a display frame, a long stall
WaitTimes == {1, 3}

\* time passes between two events
Wait ==
    /\ \E d \in WaitTimes :
          /\ now + d <= StartClock + MaxWait
          /\ now' = now + d
          /\ engineObs' = [engineObs EXCEPT !.awake = IF engine.isPaused THEN @ ELSE @ + d]
    /\ lastOp' = "wait"
    /\ UNCHANGED <<gameVars, emitted, lastResult, deaths, nextId, tdOk, maxHits, sinceHit,
                   fireLog, obs, lastDt, ticks, keys, monoVars, loopVars, utilVars, engine>>

\* GameEngine.gameLoop: a requestAnimationFrame callback (or the call start() makes)
GameLoop ==
    /\ ticks < MaxTicks
    /\ engine.isRunning
    /\ engine.scheduled
    /\ \E moveVector \in {[x |-> 0, y |-> 0], [x |-> 1, y |-> 0]},
          limit \in {StackLimit},
          e1 \in {0, 1}, e2 \in {2, 3}, u \in {0} :
         LET deltaTime == Min(now - engine.lastTime, engine.maxFrameTime)
             timed == [engine EXCEPT !.lastTime = now]
         IN /\ lastDt' = deltaTime
            /\ IF engine.isPaused
               THEN /\ engine' = timed
                    /\ engineObs' = Observed([NoPasses EXCEPT !.wasPaused = TRUE],
                                              engineObs)
               ELSE \E r \in {FixedSteps([en |-> [timed EXCEPT !.accumulator = @ + deltaTime],
                                           tried |-> 0, threw |-> FALSE],
                                          moveVector,
                                          [first |-> GetRandomEdgePosition(e1, u),
                                           retry |-> GetRandomEdgePosition(e2, u)],
                                          limit)} :
                       /\ engine' = [r.en EXCEPT !.scheduled = ~r.threw]
                       /\ engineObs' = [NoPasses EXCEPT
                                           !.tried = r.tried, !.threw = r.threw,
                                           !.fed = deltaTime,
                                           !.fedTotal = engineObs.fedTotal + deltaTime,
                                           !.awake = engineObs.awake]
    /\ lastOp' = "gameLoop"
    /\ ticks' = ticks + 1
    /\ UNCHANGED <<gameVars, emitted, lastResult, deaths, nextId, tdOk, maxHits, sinceHit,
                   fireLog, obs, now, keys, monoVars, loopVars, utilVars>>

GameLoopNext == Wait \/ GameLoop \/ EngineRestart \/ EngineVisibilityChange

GameLoopSpec == InitEngine /\ [][GameLoopNext]_vars

\* ------------------------------------------------- the utilities on their own
\* everything but the utilities at rest
IdleRest ==
    /\ engine = NewEngine
    /\ engineObs = NoPasses
    /\ gameState = InitialGameState
    /\ inputManager = NewInputManager
    /\ now = StartClock
    /\ lastOp = "init"
    /\ lastDt = 0
    /\ ticks = 0
    /\ player = StartPlayer
    /\ weapons = [pistol |-> NewPistol, machine_gun |-> NewMachineGun]
    /\ currentWeaponKey = "pistol"
    /\ enemies = <<>>
    /\ projectiles = <<>>
    /\ killCount = 0
    /\ enemySpawnTimer = 0
    /\ creatorMode = FALSE
    /\ originalPistolFireRate = 0
    /\ currentState = "playing"
    /\ input = NewInput
    /\ emitted = <<>>
    /\ lastResult = FALSE
    /\ deaths = {}
    /\ nextId = 1
    /\ tdOk = 0
    /\ maxHits = 0
    /\ sinceHit = -1
    /\ keys = 0
    /\ fireLog = FreshFireLog
    /\ obs = StartObs(-1)
    /\ isRunning = FALSE
    /\ pending = 0
    /\ frameSteps = 0

\* what a utility call leaves alone
restVars == <<gameVars, now, emitted, lastResult, deaths, nextId, tdOk, maxHits, sinceHit,
              ticks, keys, fireLog, obs, monoVars, loopVars, engineVars>>

\* a timer of any of the durations, driven by update(dt) and reset() calls
InitTimer ==
    /\ timerObj \in {CreateTimer(duration) : duration \in 1..MaxDuration}
    /\ timerFed = 0
    /\ manager = NewModInputManager
    /\ heldRun = [a \in EdgeActions |-> 0]
    /\ IdleRest

\* timer.update(dt)
TimerUpdateCall ==
    /\ \E dt \in 0..MaxTimerDt :
          /\ timerFed + dt <= MaxFed
          /\ timerObj' = TimerUpdate(timerObj, dt)
          /\ timerFed' = timerFed + dt
          /\ lastDt' = dt
    /\ lastOp' = "timerUpdate"
    /\ UNCHANGED <<restVars, manager, heldRun>>

\* timer.reset()
TimerResetCall ==
    /\ timerObj' = TimerReset(timerObj)
    /\ timerFed' = 0
    /\ lastOp' = "timerReset"
    /\ UNCHANGED <<restVars, lastDt, manager, heldRun>>

TimerNext == TimerUpdateCall \/ TimerResetCall

TimerSpec == InitTimer /\ [][TimerNext]_vars

\* the InputManager between key and mouse events
InitInput ==
    /\ manager = NewModInputManager
    /\ heldRun = [a \in EdgeActions |-> 0]
    /\ timerObj = CreateTimer(1)
    /\ timerFed = 0
    /\ IdleRest

\* the keydown / keyup and mousedown / mouseup listeners of the provider
ProviderEvent ==
    /\ \E down \in BOOLEAN :
          \/ \E code \in KeyCodes :
                manager' = [manager EXCEPT !.currentProvider.keys =
                                IF down THEN @ \cup {code} ELSE @ \ {code}]
          \/ \E button \in MouseCodes :
                manager' = [manager EXCEPT !.currentProvider.mouseButtons =
                                IF down THEN @ \cup {button} ELSE @ \ {button}]
    /\ lastOp' = "providerEvent"
    /\ UNCHANGED <<restVars, lastDt, timerObj, timerFed, heldRun>>

\* inputManager.update()
InputManagerUpdateCall ==
    /\ manager' = InputManagerUpdate(manager)
    /\ heldRun' = [a \in EdgeActions |->
                      IF IsKeyPressed(manager.currentProvider, CONFIG.input.keys[a])
                      THEN Min(heldRun[a] + 1, MaxRun) ELSE 0]
    /\ lastOp' = "inputUpdate"
    /\ UNCHANGED <<restVars, lastDt, timerObj, timerFed>>

InputNext == ProviderEvent \/ InputManagerUpdateCall

InputSpec == InitInput /\ [][InputNext]_vars

\* ------------------------------------------------------------------ claims
\* C1: a projectile of the registry game causes takeDamage on at most one
\* target in its life, also when it overlaps two or more enemies in one
\* handleCollisions pass.
C1_OneTargetPerProjectile == maxHits <= 1

\* C2: killCount equals the number of distinct enemies that died since the last
\* restart: one increment per enemy death, also when several projectiles
\* overlap the same enemy in one pass.
C2_KillCountIsDeaths == killCount = Cardinality(deaths)

\* C3: after Player.takeDamage has returned true, no takeDamage returns true
\* before 0.8 s of deltaTime has gone through Player.update (so at most one
\* succeeds per update), and an update without a successful call leaves hp
\* as it was.
C3_IframeWindow ==
    [][lastOp' = "update" =>
         /\ tdOk' <= 1
         /\ (tdOk' > 0 /\ sinceHit # -1) => sinceHit + lastDt' >= PLAYER_IFRAME_DURATION
         /\ tdOk' = 0 => player'.hp = player.hp
         /\ tdOk' = 1 => player'.hp >= player.hp - 1]_vars

\* a player inside the window, an enemy on top of them, hit points kept
C3_Witness ==
    /\ lastOp = "update"
    /\ sinceHit > 0
    /\ sinceHit < PLAYER_IFRAME_DURATION
    /\ tdOk = 0
    /\ \E i \in 1..Len(enemies) : CheckCircleCollision(player, enemies[i])

\* C7: the game goes from PLAYING to GAME_OVER, with one stateChanged event, on
\* the update that first leaves the player not alive; an update that leaves the
\* player alive stays in PLAYING; updates in GAME_OVER stay there and emit
\* nothing.
C7_GameOverOnce ==
    [][lastOp' = "update" =>
         /\ (currentState = "playing" /\ ~player'.alive) =>
                /\ currentState' = "game_over"
                /\ emitted' = <<[from |-> "playing", to |-> "game_over"]>>
         /\ (currentState = "playing" /\ player'.alive) =>
                /\ currentState' = "playing"
                /\ emitted' = <<>>
         /\ currentState = "game_over" =>
                /\ currentState' = "game_over"
                /\ emitted' = <<>>]_vars

\* an update has run in GAME_OVER
C7_Witness ==
    /\ lastOp = "update"
    /\ currentState = "game_over"
    /\ emitted = <<>>
    /\ ~player.alive

\* C8: an update in GAME_OVER leaves the player's hit points and position, the
\* enemies, the projectiles, killCount and enemySpawnTimer as they were.
C8_GameOverFrozen ==
    [][(lastOp' = "update" /\ currentState = "game_over") =>
         /\ player'.hp = player.hp
         /\ player'.x = player.x
         /\ player'.y = player.y
         /\ UNCHANGED <<enemies, projectiles, killCount, enemySpawnTimer>>]_vars

\* an update has run in GAME_OVER with an enemy on top of the dead player and
\* a projectile still in the list
C8_Witness ==
    /\ lastOp = "update"
    /\ currentState = "game_over"
    /\ emitted = <<>>
    /\ \E i \in 1..Len(enemies) : CheckCircleCollision(player, enemies[i])
    /\ projectiles # <<>>

\* the state restart() is to leave
Canonical ==
    /\ player.x = Pt(ARENA_WIDTH) \div 2
    /\ player.y = Pt(ARENA_HEIGHT) \div 2
    /\ player.hp = player.maxHp
    /\ player.maxHp = PLAYER_MAX_HP
    /\ player.alive
    /\ player.weapon = "pistol"
    /\ currentWeaponKey = "pistol"
    /\ weapons.machine_gun.currentAmmo = MACHINE_GUN_AMMO
    /\ enemies = <<>>
    /\ projectiles = <<>>
    /\ killCount = 0
    /\ enemySpawnTimer = 0
    /\ currentState = "playing"

\* C9: restart() leaves the canonical initial state whatever the state it is
\* called in, and a second restart() right after the first changes nothing.
C9_RestartCanonical ==
    [][lastOp' = "restart" =>
         /\ Canonical'
         /\ lastOp = "restart" => UNCHANGED gameVars]_vars

\* a restart from GAME_OVER
C9_Witness ==
    /\ lastOp = "restart"
    /\ emitted = <<[from |-> "game_over", to |-> "playing"]>>
    /\ deaths = {}
    /\ ticks >= 2

\* C4: between two consecutive successful fire() calls on one weapon at least
\* the fireRate in force at the later call has passed on the clock.
C4_FireRateGap ==
    \A k \in WeaponKeys : fireLog[k].gap = -1 \/ fireLog[k].gap >= fireLog[k].rate

\* the pistol fired twice, the second time at the creator-mode rate
C4_Witness ==
    /\ fireLog.pistol.fired >= 2
    /\ fireLog.pistol.gap >= fireLog.pistol.rate
    /\ fireLog.pistol.rate = PISTOL_FIRE_RATE \div CREATOR_RATE_DIVISOR

\* C5: a machine gun with N rounds fires successfully exactly N times: each
\* success takes one round, the count of rounds never goes below 0, and a call
\* with no round left returns false, adds no projectile and leaves the count 0.
C5_MachineGunAmmo ==
    [][lastOp' = "fireMachineGun" =>
         /\ weapons'.machine_gun.currentAmmo >= 0
         /\ fireLog'.machine_gun.fired + weapons'.machine_gun.currentAmmo = MACHINE_GUN_AMMO
         /\ lastResult' =>
                /\ weapons.machine_gun.currentAmmo > 0
                /\ weapons'.machine_gun.currentAmmo = weapons.machine_gun.currentAmmo - 1
                /\ Len(projectiles') = Len(projectiles) + 1
         /\ weapons.machine_gun.currentAmmo = 0 =>
                /\ ~lastResult'
                /\ projectiles' = projectiles
                /\ weapons'.machine_gun.currentAmmo = 0]_vars

\* the last rounds were fired and a further call failed
C5_Witness ==
    /\ lastOp = "fireMachineGun"
    /\ ~lastResult
    /\ weapons.machine_gun.currentAmmo = 0
    /\ fireLog.machine_gun.fired = MACHINE_GUN_AMMO
    /\ Len(projectiles) >= LowAmmo
    /\ CanFire([weapons.machine_gun EXCEPT !.currentAmmo = 1], now)

\* C6: fire() is all-or-nothing: a call that returns false leaves the weapon
\* (lastFireTime, currentAmmo) and the projectile list as they were; a call
\* that returns true appends exactly one projectile, sets lastFireTime to the
\* clock and takes one round from a finite magazine; canFire() changes nothing.
C6_FireAllOrNothing ==
    [][/\ lastOp' \in {"firePistol", "fireMachineGun"} =>
            LET k == IF lastOp' = "firePistol" THEN "pistol" ELSE "machine_gun"
                w == weapons[k]
            IN /\ \A o \in WeaponKeys \ {k} : weapons'[o] = weapons[o]
               /\ IF lastResult'
                  THEN /\ Len(projectiles') = Len(projectiles) + 1
                       /\ SubSeq(projectiles', 1, Len(projectiles)) = projectiles
                       /\ weapons'[k] =
                            [w EXCEPT !.lastFireTime = now,
                                      !.currentAmmo = IF w.ammo > 0 THEN @ - 1 ELSE @]
                  ELSE /\ weapons'[k] = w
                       /\ projectiles' = projectiles
       /\ lastOp' = "canFire" => UNCHANGED <<weapons, projectiles>>]_vars

\* a call that passed both gates and failed on a zero-length aim
C6_Witness ==
    /\ lastOp = "fireMachineGun"
    /\ ~lastResult
    /\ CanFire(weapons.machine_gun, now)
    /\ weapons.machine_gun.currentAmmo = LowAmmo

\* C10: restartGame() of src/main.js leaves a fully reset game: no enemies, no
\* player bullets, no enemy bullets, score 0, a fresh player at the centre, the
\* state PLAYING.
C10_RestartGameResetsAll ==
    [][lastOp' = "restartGame" =>
         /\ gameState'.enemies = <<>>
         /\ gameState'.bullets = <<>>
         /\ gameState'.enemyBullets = <<>>
         /\ gameState'.score = 0
         /\ gameState'.player = MonoPlayer(Pt(canvasWidth) \div 2, Pt(canvasHeight) \div 2)
         /\ gameState'.currentState = "PLAYING"]_vars

\* is the centre of the entity e inside [radius, ARENA_WIDTH - radius] x
\* [radius, ARENA_HEIGHT - radius]
InClampRange(e) ==
    /\ e.x >= e.radius /\ e.x <= Pt(ARENA_WIDTH) - e.radius
    /\ e.y >= e.radius /\ e.y <= Pt(ARENA_HEIGHT) - e.radius

\* C12: every enemy Game.spawnEnemy creates is, at creation, at least
\* SPAWN_SAFETY_DISTANCE away from the player, unless the first edge point and
\* the one opposite-edge retry point are both closer than that.
C12_SpawnSafety ==
    lastOp = "update" =>
        \A i \in 1..Len(obs.spawns) :
            LET sp == obs.spawns[i]
            IN \/ IsSafeFrom([x |-> sp.x, y |-> sp.y], [x |-> sp.px, y |-> sp.py])
               \/ (~sp.firstSafe /\ ~sp.retrySafe)

\* an enemy whose first point was too close and which was put on the opposite edge
C12_Witness ==
    /\ lastOp = "update"
    /\ \E i \in 1..Len(obs.spawns) :
          /\ ~obs.spawns[i].firstSafe
          /\ obs.spawns[i].retrySafe
          /\ IsSafeFrom([x |-> obs.spawns[i].x, y |-> obs.spawns[i].y],
                        [x |-> obs.spawns[i].px, y |-> obs.spawns[i].py])

\* C13: in a PLAYING tick enemySpawnTimer accumulates dt; exactly on the ticks
\* where it reaches ENEMY_SPAWN_INTERVAL one enemy is created and the timer is
\* reset to 0, on every other tick no enemy is created; so at most one enemy
\* spawns per tick and two spawns are at least 2.0 s of simulated time apart.
C13_SpawnTimer ==
    [][(lastOp' = "update" /\ currentState = "playing") =>
         IF enemySpawnTimer + lastDt' >= ENEMY_SPAWN_INTERVAL
         THEN /\ Len(obs'.spawns) = 1
              /\ nextId' = nextId + 1
              /\ enemySpawnTimer' = 0
              /\ obs'.spawns[1].gap = -1 \/ obs'.spawns[1].gap >= ENEMY_SPAWN_INTERVAL
         ELSE /\ obs'.spawns = <<>>
              /\ nextId' = nextId
              /\ enemySpawnTimer' = enemySpawnTimer + lastDt']_vars

\* a tick that spawned, the interval after the spawn before it
C13_Witness ==
    /\ lastOp = "update"
    /\ Len(obs.spawns) = 1
    /\ obs.spawns[1].gap >= ENEMY_SPAWN_INTERVAL
    /\ enemySpawnTimer = 0
    /\ Len(enemies) > 0 /\ enemies[Len(enemies)].id = obs.spawns[1].id

\* C14: an Assassin.update, Shooter.update or Tank.update called while the
\* player is not alive changes no field of the enemy, creates no projectile and
\* deals no damage.
C14_FrozenWhenPlayerDead == lastOp = "update" => obs.deadNoop

\* a tick in which a shooter, an assassin and a tank were updated after the
\* player had died
C14_Witness ==
    /\ lastOp = "update"
    /\ obs.deadKinds = {"assassin", "shooter", "tank"}

\* C15: the player is never outside the clamp range at the end of two ticks in
\* a row, also when the knockback hit is the one that kills the player.
C15_PlayerBackInside ==
    [][(lastOp = "update" /\ lastOp' = "update" /\ ~InClampRange(player))
          => InClampRange(player')]_vars

\* C16: at the end of every tick every enemy of the enemies list has its centre
\* in the clamp range, also the enemies spawned in that tick and those updated
\* after the player died in it.
C16_EnemiesInside ==
    lastOp = "update" => \A i \in 1..Len(enemies) : InClampRange(enemies[i])

\* the sub-steps of a PLAYING tick the order is stated for
OrderedSteps ==
    {"player", "fire", "spawn", "enemies", "projectiles", "collisions", "cull", "gameOver"}
IsOrderedStep(st) == st \in OrderedSteps
TickOrder(fired) ==
    <<"player">> \o (IF fired THEN <<"fire">> ELSE <<>>)
        \o <<"spawn", "enemies", "projectiles", "collisions", "cull", "gameOver">>

\* C20: a PLAYING tick applies the input to the player, fires if asked, advances
\* the spawn timer and spawns, updates the enemies, updates the projectiles,
\* resolves collisions, culls the dead and checks for game over, in this order
\* (the collision pass Game.update adds after it changes nothing); every enemy
\* and every projectile of the lists is updated exactly once.
C20_TickOrder ==
    (lastOp = "update" /\ obs.wasPlaying) =>
        /\ SelectSeq(obs.steps, IsOrderedStep) = TickOrder(obs.fireAsked)
        /\ obs.enemyCalls = obs.enemyLen
        /\ obs.projCalls = obs.projLen
        /\ obs.lastPassIdle

\* a tick that fired, spawned, and updated enemies and a projectile
C20_Witness ==
    /\ lastOp = "update"
    /\ obs.wasPlaying
    /\ obs.fireAsked
    /\ Len(obs.spawns) = 1
    /\ obs.enemyCalls >= 2
    /\ obs.projCalls >= 1

\* C17: the elapsed time a frame-loop callback feeds to the simulation step is
\* never more than 1/30 s, however long the real interval between two callbacks
\* was (Game.gameLoop of src/js/main.js, gameLoop of src/main.js).
C17_ElapsedCapped == lastOp \in {"update", "monoUpdate"} => lastDt <= MAX_FRAME_DT

\* C18: whatever the interleaving of start(), stop() and animation-frame
\* callbacks, at most one gameLoop callback is pending at any time and a display
\* frame performs one update-then-render step, also when stop() is followed by
\* start() before the callback already scheduled has run.
C18_OneLoopChain == pending <= 1 /\ frameSteps <= 1

C19_UpdateOnePass ==
    (lastOp = "gameUpdate" /\ engineObs.wasPlaying /\ ~engineObs.wasPaused)
        => (~engineObs.threw /\ engineObs.passes = 1)

\* C21: every entity of the registry version (player, enemy, projectile) has
\* hp <= maxHp in every reachable state, no entity is left alive with hp <= 0,
\* and a takeDamage call on any entity of a reachable state that leaves
\* hp <= 0 returns with the alive flag false.
C21_HpBounded ==
    LET entities == {player} \cup {enemies[i] : i \in 1..Len(enemies)}
                             \cup {projectiles[j] : j \in 1..Len(projectiles)}
        after(r) == r.hp <= 0 => ~r.alive
    IN /\ \A e \in entities : e.hp <= e.maxHp /\ (e.hp <= 0 => ~e.alive)
       /\ \A d \in 1..PLAYER_MAX_HP :
             /\ after(PlayerTakeDamage(player, d).p)
             /\ \A i \in 1..Len(enemies) : after(EnemyTakeDamage(enemies[i], d))
             /\ \A j \in 1..Len(projectiles) : after(EntityTakeDamage(projectiles[j], d))

\* a tick in which takeDamage took the player's last hit point, with a tank
\* that has been hit and lives on
C21_Witness ==
    /\ lastOp = "update"
    /\ tdOk > 0
    /\ player.hp <= 0
    /\ ~player.alive
    /\ \E i \in 1..Len(enemies) : enemies[i].alive /\ enemies[i].hp < enemies[i].maxHp

\* C22: when a Tank touching a vulnerable player (no invulnerability window, no
\* creator mode) deals contact damage, the player's hp drops by exactly 1 in
\* that tick and the player is pushed TANK_KNOCKBACK further away from the
\* tank; and a Tank whose contact cooldown has not yet run out deals no damage,
\* through Tank.update or through Game.handleCollisions.
C22_TankContact ==
    [][lastOp' = "update" =>
         /\ \A k \in 1..Len(obs'.contacts) :
               LET c == obs'.contacts[k]
               IN (c.kind = "tank" /\ ~c.creator) =>
                     /\ c.hp1 = c.hp0 - 1
                     /\ player'.hp = player.hp - 1
                     /\ c.d1 >= c.d0 + Pt(TANK_KNOCKBACK) - 1
                     /\ c.d1 <= c.d0 + Pt(TANK_KNOCKBACK)
         /\ \A i \in 1..Len(enemies) :
               (enemies[i].kind = "tank" /\ enemies[i].contactCooldown - lastDt' > 0) =>
                   \A k \in 1..Len(obs'.contacts) : obs'.contacts[k].id # enemies[i].id]_vars

\* is the centre of the projectile pr outside the arena by more than its radius
OutOfArena(pr) ==
    \/ pr.x < -pr.radius \/ pr.x > Pt(ARENA_WIDTH) + pr.radius
    \/ pr.y < -pr.radius \/ pr.y > Pt(ARENA_HEIGHT) + pr.radius

\* a projectile within two ticks of its lifetime is in the list
NearLifetime ==
    \E j \in 1..Len(projectiles) :
        projectiles[j].age >= projectiles[j].lifetime - 2 * MAX_FRAME_DT

\* C23: a projectile leaves the projectiles list only at the cull of a PLAYING
\* tick (or on restart), and every projectile the cull drops has reached its
\* lifetime, has its centre outside the arena by more than its radius, or has
\* registered a hit; no projectile survives the cull with age >= lifetime; and
\* while the game stays PLAYING a projectile close to its lifetime is
\* eventually out of the list.
C23_ProjectileRemoval ==
    /\ [][/\ (lastOp' = "update" /\ currentState = "playing") =>
              /\ \A k \in 1..Len(obs'.culled) :
                    LET pr == obs'.culled[k]
                    IN pr.age >= pr.lifetime \/ OutOfArena(pr) \/ pr.hits >= 1
              /\ obs'.projLen >= Len(projectiles)
              /\ Len(projectiles') = obs'.projLen - Len(obs'.culled)
              /\ \A j \in 1..Len(projectiles') :
                    /\ projectiles'[j].alive
                    /\ projectiles'[j].age < projectiles'[j].lifetime
          /\ (lastOp' = "update" /\ currentState # "playing") => projectiles' = projectiles
          /\ lastOp' = "keydown" => projectiles' = projectiles]_vars
    /\ (NearLifetime ~> (~NearLifetime \/ currentState # "playing"))

\* a tick whose cull dropped a projectile for its age, one for leaving the
\* arena, and kept a third
C23_Witness ==
    /\ lastOp = "update"
    /\ \E k \in 1..Len(obs.culled) :
          /\ obs.culled[k].age >= obs.culled[k].lifetime
          /\ ~OutOfArena(obs.culled[k])
          /\ obs.culled[k].hits = 0
    /\ \E k \in 1..Len(obs.culled) :
          /\ obs.culled[k].age < obs.culled[k].lifetime
          /\ OutOfArena(obs.culled[k])
          /\ obs.culled[k].hits = 0
    /\ projectiles # <<>>

\* C24: an entity whose alive flag is false takes no part in collision
\* resolution: a projectile that expired in its update (age or bounds) deals no
\* damage in the handleCollisions of that tick, and an enemy killed earlier in
\* a pass takes no further damage and absorbs no further projectile.
C24_DeadExcluded == lastOp = "update" => obs.late = {}

\* C25: firing with the aim point at the player's own position leaves no
\* zero-velocity bullet in the active bullet collection (monolithic
\* Player.tryToFire): every bullet held at a tick boundary has a direction.
C25_NoStationaryBullet ==
    \A i \in 1..Len(gameState.bullets) :
        gameState.bullets[i].dirX # 0 \/ gameState.bullets[i].dirY # 0

\* C26: in the modular Game an enemy leaves the active enemy set only with
\* health <= 0 (or on reset): no enemy that cleanupEntities filters out during
\* an update has health > 0, in particular not one that touched the player.
C26_RemovedOnlyDead ==
    lastOp = "gameUpdate" =>
        \A k \in 1..Len(engineObs.dropped) : engineObs.dropped[k].health <= 0

\* C27: in the registry Game the machine state is GAME_OVER at a tick boundary
\* exactly when the player is not alive, so a death shows as GAME_OVER at the
\* end of the tick it happens in; the only transitions taken are PLAYING ->
\* GAME_OVER, by an update that leaves the player not alive, and GAME_OVER ->
\* PLAYING, by restart.
C27_GameOverIffDead ==
    /\ [](currentState = "game_over" <=> ~player.alive)
    /\ [][/\ emitted' \in {<<>>, <<[from |-> "playing", to |-> "game_over"]>>,
                           <<[from |-> "game_over", to |-> "playing"]>>}
          /\ (currentState' # currentState) = (emitted' # <<>>)
          /\ emitted' # <<>> =>
                /\ emitted'[1] = [from |-> currentState, to |-> currentState']
                /\ currentState' = "game_over" => (lastOp' = "update" /\ player.alive)
                /\ currentState' = "playing" => lastOp' = "restart"]_vars

\* the tick in which the player died: it ends in GAME_OVER, one event emitted
C27_Witness ==
    /\ lastOp = "update"
    /\ emitted = <<[from |-> "playing", to |-> "game_over"]>>
    /\ currentState = "game_over"
    /\ player.hp <= 0
    /\ tdOk > 0

\* C28: a registry Shooter starts in the approach phase, moving toward the
\* arena centre and not toward the player; isMoving becomes false only when
\* moveTimer has reached SHOOTER_MOVE_DURATION or the Shooter is within
\* SHOOTER_CENTER_THRESHOLD of the centre, never becomes true again, and from
\* then on every tick leaves the Shooter with zero velocity where it was.
C28_ApproachThenHold ==
    [][LET toCentre(x, y) == NormalizeTimes(CenterX - x, CenterY - y, Vel(SHOOTER_SPEED))
           approaches(f, x, y) ==
               /\ f.vx = toCentre(x, y).x
               /\ f.vy = toCentre(x, y).y
               /\ f.x = Clamp(x + f.vx * lastDt', f.radius, Pt(ARENA_WIDTH) - f.radius)
               /\ f.y = Clamp(y + f.vy * lastDt', f.radius, Pt(ARENA_HEIGHT) - f.radius)
       IN \A j \in 1..Len(enemies') :
             enemies'[j].kind = "shooter" =>
                LET f == enemies'[j]
                    old == {i \in 1..Len(enemies) : enemies[i].id = f.id}
                    made == {k \in 1..Len(obs'.spawns) : obs'.spawns[k].id = f.id}
                IN /\ \A i \in old :
                         LET e == enemies[i]
                         IN /\ ~e.isMoving =>
                                  /\ ~f.isMoving
                                  /\ f.vx = 0 /\ f.vy = 0 /\ f.x = e.x /\ f.y = e.y
                            /\ (e.isMoving /\ ~f.isMoving) =>
                                  /\ \/ f.moveTimer >= SHOOTER_MOVE_DURATION
                                     \/ Dist2(e.x, e.y, CenterX, CenterY)
                                            <= Pt(SHOOTER_CENTER_THRESHOLD)
                                                 * Pt(SHOOTER_CENTER_THRESHOLD)
                                  /\ f.vx = 0 /\ f.vy = 0 /\ f.x = e.x /\ f.y = e.y
                            /\ (e.isMoving /\ f.isMoving) =>
                                  \/ f = e
                                  \/ /\ lastOp' = "update"
                                     /\ f.moveTimer < SHOOTER_MOVE_DURATION
                                     /\ approaches(f, e.x, e.y)
                   /\ (old = {} /\ lastOp' = "update") =>
                         /\ f.isMoving
                         /\ \A k \in made :
                               \/ f = NewShooter(f.id, obs'.spawns[k].x, obs'.spawns[k].y)
                               \/ approaches(f, obs'.spawns[k].x, obs'.spawns[k].y)]_vars

\* a Shooter whose approach has just ended on the clock, short of the centre
\* and with the player elsewhere, and that has stayed where it was since
C28_Witness ==
    /\ lastOp = "update"
    /\ ticks >= 3
    /\ \E i \in 1..Len(enemies) :
          /\ enemies[i].kind = "shooter"
          /\ ~enemies[i].isMoving
          /\ enemies[i].moveTimer = SHOOTER_MOVE_DURATION + 2
          /\ enemies[i].vx = 0 /\ enemies[i].vy = 0
          /\ enemies[i].x = Pt(SHOOTER_RADIUS) + 58 * 2 * Vel(SHOOTER_SPEED)
          /\ enemies[i].x < CenterX - Pt(SHOOTER_CENTER_THRESHOLD)
          /\ player.x # CenterX

\* C29: a registry Shooter's fireTimer grows by dt in every update call made
\* with the player alive, while it approaches and while it holds; the call in
\* which fireTimer reaches SHOOTER_FIRE_RATE appends exactly one enemy
\* projectile and leaves fireTimer at 0, any other call appends none; a
\* Shooter is updated at most once per tick and fireTimer changes nowhere
\* else, so two shots of one Shooter are at least SHOOTER_FIRE_RATE of
\* simulated time apart.
C29_FireTimer ==
    [][LET shots == obs'.shots
       IN /\ lastOp' = "update" =>
                /\ \A k \in 1..Len(shots) :
                      LET r == shots[k]
                      IN /\ r.alive /\ r.t0 + lastDt' < SHOOTER_FIRE_RATE =>
                               r.t1 = r.t0 + lastDt' /\ r.made = <<>>
                         /\ r.alive /\ r.t0 + lastDt' >= SHOOTER_FIRE_RATE =>
                               /\ r.t1 = 0
                               /\ Len(r.made) = 1
                               /\ r.made[1].owner = "shooter"
                               /\ r.made[1].age = 0
                         /\ ~r.alive => r.t1 = r.t0 /\ r.made = <<>>
                         /\ \A i \in 1..Len(enemies) :
                               enemies[i].id = r.id => enemies[i].fireTimer = r.t0
                         /\ \A m \in 1..Len(shots) : shots[m].id = r.id => m = k
                /\ \A j \in 1..Len(enemies') :
                      enemies'[j].kind = "shooter" =>
                         \/ \E k \in 1..Len(shots) :
                               /\ shots[k].id = enemies'[j].id
                               /\ shots[k].t1 = enemies'[j].fireTimer
                         \/ /\ shots = <<>>
                            /\ \E i \in 1..Len(enemies) : enemies[i] = enemies'[j]
          /\ lastOp' \notin {"update", "restart"} => enemies' = enemies]_vars

\* a tick in which a Shooter fired: its timer had reached the rate, is back at
\* 0, and its one bullet is in the projectile list
C29_Witness ==
    /\ lastOp = "update"
    /\ \E k \in 1..Len(obs.shots) :
          /\ obs.shots[k].alive
          /\ obs.shots[k].t0 + lastDt >= SHOOTER_FIRE_RATE
          /\ obs.shots[k].t1 = 0
          /\ Len(obs.shots[k].made) = 1
          /\ \E j \in 1..Len(enemies) :
                enemies[j].id = obs.shots[k].id /\ enemies[j].fireTimer = 0
    /\ \E j \in 1..Len(projectiles) :
          projectiles[j].owner = "shooter" /\ projectiles[j].age = lastDt

\* C30: in the registry version a tick runs toggleWeapon at most once, and only
\* on a pending switch request; the request flag is false once consumed; the
\* toggle equips the other of the two weapons, so two toggles give the
\* original one back; a request is accepted only when the cooldown since the
\* last processed toggle has passed, so two processed toggles are at least
\* WEAPON_SWITCH_COOLDOWN apart on the clock.
C30_SwitchRateLimited ==
    [][LET processed == input.switchWeapon /\ currentState = "playing"
           switches == {k \in 1..Len(obs'.steps) : obs'.steps[k] = "switch"}
       IN /\ currentWeaponKey' \in WeaponKeys
          /\ (lastOp' = "update" /\ processed) =>
                /\ Cardinality(switches) = 1
                /\ currentWeaponKey' # currentWeaponKey
                /\ player'.weapon = currentWeaponKey'
                /\ ~input'.switchWeapon
                /\ input'.lastWeaponSwitchTime = now'
                /\ now' - input.lastWeaponSwitchTime >= WEAPON_SWITCH_COOLDOWN
          /\ (lastOp' = "update" /\ ~processed) =>
                /\ switches = {}
                /\ currentWeaponKey' = currentWeaponKey
                /\ input'.switchWeapon = input.switchWeapon
                /\ input'.lastWeaponSwitchTime = input.lastWeaponSwitchTime
          /\ lastOp' = "keydown" =>
                /\ currentWeaponKey' = currentWeaponKey
                /\ input'.lastWeaponSwitchTime = input.lastWeaponSwitchTime
                /\ (input'.switchWeapon /\ ~input.switchWeapon) =>
                      now - input.lastWeaponSwitchTime >= WEAPON_SWITCH_COOLDOWN
                /\ input.switchWeapon => input'.switchWeapon
          /\ lastOp' = "restart" =>
                /\ input'.switchWeapon = input.switchWeapon
                /\ input'.lastWeaponSwitchTime = input.lastWeaponSwitchTime]_vars

\* the second toggle of a session has been processed: the pistol is back, the
\* request is consumed, and a cooldown or more has passed since the first
C30_Witness ==
    /\ lastOp = "update"
    /\ \E k \in 1..Len(obs.steps) : obs.steps[k] = "switch"
    /\ currentWeaponKey = "pistol"
    /\ player.weapon = "pistol"
    /\ ~input.switchWeapon
    /\ input.lastWeaponSwitchTime = now
    /\ now >= StartClock + 4
    /\ keys = 1

\* what holds of a timer that was fed `fed` since it was made or last reset
TimerInv(t, fed) ==
    /\ 0 <= t.elapsed /\ t.elapsed <= t.duration
    /\ t.elapsed = Min(fed, t.duration)
    /\ t.isComplete <=> fed >= t.duration
    /\ t.isComplete <=> t.elapsed = t.duration

\* C31: a timer made by createTimer keeps 0 <= elapsed <= duration, is complete
\* exactly when the dt fed since it was made or last reset has reached its
\* duration, is left as it is by update(dt) once complete, and after reset() has
\* elapsed 0 and isComplete false
C31_TimerBounds ==
    [][/\ TimerInv(timerObj, timerFed)
       /\ TimerInv(timerObj', timerFed')
       /\ (lastOp' = "timerUpdate" /\ timerObj.isComplete) => timerObj' = timerObj
       /\ lastOp' = "timerReset" =>
              /\ timerObj'.elapsed = 0 /\ ~timerObj'.isComplete
              /\ timerObj'.duration = timerObj.duration]_vars

\* an update fed a timer past its duration: it is complete, elapsed at duration
C31_Witness ==
    /\ lastOp = "timerUpdate"
    /\ timerObj.isComplete
    /\ timerFed > timerObj.duration
    /\ lastDt > 0

C35_HpBounded ==
    [][/\ 0 <= player.hp /\ player.hp <= player.maxHp
       /\ 0 <= player'.hp /\ player'.hp <= player'.maxHp
       /\ (lastOp' = "update" /\ player.hp = 0) => player'.hp = 0]_vars

\* an update ran in game_over with the dead player under an enemy
C35_Witness ==
    /\ lastOp = "update"
    /\ lastDt > 0
    /\ currentState = "game_over"
    /\ player.hp = 0
    /\ \E i \in DOMAIN enemies :
          CheckCircleCollision(player, enemies[i])
    /\ emitted = <<>>

\* C36: the handleCollisions() call that Game.update makes after updatePlaying
\* changes nothing in a PLAYING tick: the player, the enemies, the projectiles
\* and killCount are after it what they were before it
C36_SecondPassIdle == (lastOp = "update" /\ obs.wasPlaying) => obs.lastPassIdle

\* a PLAYING tick whose first pass hurt the player, and that ends with the
\* enemy still on the player for the second pass to test
C36_Witness ==
    /\ lastOp = "update"
    /\ obs.wasPlaying
    /\ Len(obs.contacts) > 0
    /\ player.hp < obs.hp0
    /\ \E i \in DOMAIN enemies : CheckCircleCollision(player, enemies[i])

\* C38: a weapon-switch key press made in game_over has no effect on the next
\* session: the first update after restart(), with no key pressed in between,
\* ends with the pistol equipped
C38_SwitchInGameOverDropped ==
    [][(lastOp = "restart" /\ lastOp' = "update" /\ input.askedIn = "game_over") =>
           currentWeaponKey' = "pistol"]_vars

\* C39: after any toggleCreatorMode() and restart() calls, creatorMode is true
\* exactly when the pistol's fireRate is a fifth of the original rate, and with
\* creatorMode false the pistol fires at the original rate
C39_CreatorRate ==
    /\ creatorMode <=> weapons.pistol.fireRate = PISTOL_FIRE_RATE \div CREATOR_RATE_DIVISOR
    /\ ~creatorMode => weapons.pistol.fireRate = PISTOL_FIRE_RATE

\* C40: in the monolithic update loop an enemy's lastDamageTime is restarted
\* only by an overlap in which the player loses health: the enemies whose
\* lastDamageTime an update set to its clock are no more than the hit points
\* the player lost in it
C40_CooldownOnlyOnDamage ==
    [][lastOp' = "monoUpdate" =>
          Cardinality({i \in DOMAIN gameState'.enemies :
                          gameState'.enemies[i].lastDamageTime = now'})
              <= gameState.player.health - gameState'.player.health]_vars

\* C33: a player projectile created at distance 0 from an enemy is a hit in the
\* first handleCollisions pass after its creation: in the tick in which a
\* standing player fires with an enemy on its own position, that enemy loses
\* hp (or dies) and the new projectile does not outlive the tick
C33_PointBlankHit ==
    [][(/\ lastOp' = "update" /\ currentState = "playing"
        /\ obs'.fireAsked /\ fireLog'.pistol.fired > fireLog.pistol.fired
        /\ player'.x = player.x /\ player'.y = player.y) =>
           \A i \in DOMAIN enemies :
              (enemies[i].alive /\ enemies[i].x = player.x /\ enemies[i].y = player.y) =>
                  /\ \/ enemies[i].id \in deaths'
                     \/ \E j \in DOMAIN enemies' :
                           /\ enemies'[j].id = enemies[i].id
                           /\ enemies'[j].hp < enemies[i].hp
                  /\ \A j \in DOMAIN projectiles' :
                        ~(projectiles'[j].owner = "player" /\ projectiles'[j].age = lastDt')]_vars

====
